---- MODULE Spec2Model ----
(***************************************************************************)
(* Model of the POI acquisition pipeline of poiahead                        *)
(* (Backend/overpass_client.py, Backend/route_calculator.py,                *)
(* Backend/route_storage.py, and generate_poi_stream of Backend/main.py).   *)
(*                                                                         *)
(* Units.  Distances are integers in metres, waits are integers in          *)
(* milliseconds, opening-hours durations are integers in minutes.           *)
(* Coordinates are points of the equator: lat = 0 and lon is the arc        *)
(* length from the prime meridian in metres, so that the great-circle       *)
(* (haversine) distance of two points is exactly the absolute difference    *)
(* of their lon values.  Only the bounding box is computed for points off   *)
(* the equator; there lat is an arc length in metres as well.               *)
(***************************************************************************)
EXTENDS Integers, Sequences, FiniteSets, TLC

(***************************************************************************)
(* Bounds of the model.                                                     *)
(***************************************************************************)
\* longest caller-supplied selection that is enumerated
MaxSelLen == 2
\* largest max_retries a direct caller of query_poi_type passes
MaxRetriesBound == 3
\* largest number of categories of one acquisition the remote side lets fail
MaxFailedCategories == 2

(***************************************************************************)
(* Program constants.                                                       *)
(***************************************************************************)
None == "None"

\* keys of POI_TYPE_CONFIG, in the insertion order of the dict literal
POI_TYPES ==
    << "public_toilets", "bakeries", "gas_stations", "grocery_stores",
       "water_fountains", "bicycle_shops", "bicycle_vending",
       "vending_machines", "camping_hotels", "sport_areas" >>

Range(s) == { s[i] : i \in DOMAIN s }

POI_TYPE_CONFIG == Range(POI_TYPES)

\* POI_TYPE_CONFIG[t]["default_name"]
default_name(t) == << "Unnamed", t >>

\* self.overpass_urls
overpass_urls ==
    << "https://overpass-api.de/api/interpreter",
       "http://overpass-api.de/api/interpreter",
       "https://overpass.kumi.systems/api/interpreter" >>

\* default of the max_retries parameter of query_poi_type
DEFAULT_MAX_RETRIES == 3
\* time.sleep(5) after a rate-limit response, in milliseconds
RATE_LIMIT_WAIT_MS == 5000
\* default of delay_seconds (0.75 s), in milliseconds
DELAY_MS == 750
\* default of max_distance_to_route_km (1.0 km), in metres
DEFAULT_MAX_DISTANCE_M == 1000
\* default of deduplication_radius_km (1.0 km), in metres
DEFAULT_DEDUP_RADIUS_M == 1000
\* the cap of 168 hours per week, in minutes
WEEK_MINUTES == 10080
\* half the circumference of the sphere of haversine(), in metres
HALF_TURN_M == 20015115

\* the set literal deduplicate_types of deduplicate_pois
deduplicate_types ==
    { "public_toilets", "grocery_stores", "bakeries", "water_fountains",
      "bicycle_shops", "camping_hotels", "gas_stations", "sport_areas" }

(***************************************************************************)
(* Generic helpers.                                                         *)
(***************************************************************************)
Abs(x) == IF x < 0 THEN -x ELSE x

Min(a, b) == IF a < b THEN a ELSE b

RECURSIVE Pow2(_)
\* 2 ** k
Pow2(k) == IF k = 0 THEN 1 ELSE 2 * Pow2(k - 1)

\* lexicographic "a sorts strictly before b" on equally long integer tuples
RECURSIVE TupleLess(_, _)
TupleLess(a, b) ==
    IF a = << >> THEN FALSE
    ELSE IF Head(a) # Head(b) THEN Head(a) < Head(b)
    ELSE TupleLess(Tail(a), Tail(b))

\* list.sort(key=...): a stable sort, modelled by stable insertion on
\* << key, item >> pairs
RECURSIVE InsertByKey(_, _)
InsertByKey(sorted, x) ==
    IF sorted = << >> THEN << x >>
    ELSE IF TupleLess(x[1], Head(sorted)[1])
         THEN << x >> \o sorted
         ELSE << Head(sorted) >> \o InsertByKey(Tail(sorted), x)

RECURSIVE SortPairs(_)
SortPairs(s) ==
    IF s = << >> THEN << >>
    ELSE InsertByKey(SortPairs(SubSeq(s, 1, Len(s) - 1)), s[Len(s)])

StableSort(s, Key(_)) ==
    LET sorted == SortPairs([ i \in 1..Len(s) |-> << Key(s[i]), s[i] >> ])
    IN  [ i \in 1..Len(s) |-> sorted[i][2] ]

(***************************************************************************)
(* Route geometry (route_calculator.py).                                    *)
(***************************************************************************)
\* All points of the model lie on the equator; lon is the signed distance in
\* metres from the prime meridian, so that lon = -HALF_TURN_M and
\* lon = HALF_TURN_M are the two names of the antimeridian (-180 and 180
\* degrees).
\* RouteCalculator.haversine_distance / haversine(): the great-circle
\* distance, which between two equatorial points is the shorter way round
haversine_distance(p1, p2) ==
    LET d == Abs(p1.lon - p2.lon)
    IN  Min(d, 2 * HALF_TURN_M - d)

\* the distance the R-tree orders by: the planar distance between the
\* (lon, lat, lon, lat) boxes, which knows nothing of the sphere
box_distance(p1, p2) == Abs(p1.lon - p2.lon)

\* the route positions nearest to a point: what rtree.nearest(box, 1) yields
NearestIndices(points, p) ==
    { i \in DOMAIN points :
        \A j \in DOMAIN points :
            box_distance(points[i], p) <= box_distance(points[j], p) }

\* RouteCalculator.find_nearest_route_point_index: next() of the nearest
\* iterator; among equidistant points the R-tree's traversal decides, which
\* the model leaves to the parameter order ("first" or "last") of each lookup
find_nearest_route_point_index(points, p, order) ==
    LET near == NearestIndices(points, p)
    IN  IF order = "first"
        THEN CHOOSE i \in near : \A j \in near : i <= j
        ELSE CHOOSE i \in near : \A j \in near : i >= j

RECURSIVE SumSegments_skipFirst(_, _)
\* mutant: the loop starts at 1, the first segment is never added
SumSegments_skipFirst(points, index) ==
    IF index <= 1 THEN 0
    ELSE SumSegments_skipFirst(points, index - 1)
         + haversine_distance(points[index], points[index + 1])

RECURSIVE SumSegments(_, _)
\* the loop "for i in range(index): distance += haversine(points[i], points[i+1])"
SumSegments(points, index) ==
    IF index = 0 THEN 0
    ELSE SumSegments(points, index - 1)
         + haversine_distance(points[index], points[index + 1])

\* RouteCalculator.calculate_distance_on_route (index is 0-based in the code,
\* 1-based here)
calculate_distance_on_route(points, p, order) ==
    SumSegments(points, find_nearest_route_point_index(points, p, order) - 1)

(***************************************************************************)
(* Opening hours.  An opening_hours string is modelled by what the regular *)
(* expression and the substring tests of the code see in it: the sequence  *)
(* of its semicolon-separated clauses, each clause being                   *)
(*   kind "range"   text matched by simple_pattern, "dd-dd h:mm-h:mm";     *)
(*                  sd, ed are the two day tokens, sh:sm-eh:em the times   *)
(*   kind "always"  text without a match that contains a 24/7 pattern      *)
(*   kind "text"    any other text (no match, no 24/7 pattern).            *)
(* None and the empty string are both the empty sequence (both falsy).     *)
(***************************************************************************)
NoHours == << >>

Clause(kind, sd, ed, sh, sm, eh, em) ==
    [ kind |-> kind, sd |-> sd, ed |-> ed, sh |-> sh, sm |-> sm, eh |-> eh, em |-> em ]

RangeClause(sd, ed, sh, sm, eh, em) == Clause("range", sd, ed, sh, sm, eh, em)
AlwaysClause == Clause("always", "", "", 0, 0, 0, 0)
TextClause == Clause("text", "", "", 0, 0, 0, 0)

\* day_patterns.get(token, 0)
day_patterns(d) ==
    CASE d = "mo" -> 1 [] d = "tu" -> 2 [] d = "we" -> 3 [] d = "th" -> 4
      [] d = "fr" -> 5 [] d = "sa" -> 6 [] d = "su" -> 7 [] OTHER -> 0

\* OverpassClient.is_24_7: some pattern is a substring of the lowered string;
\* "mo-su 00:00-24:00" is one of the patterns and is also a range clause
is_24_7(opening_hours) ==
    \E i \in DOMAIN opening_hours :
        LET c == opening_hours[i]
        IN  \/ c.kind = "always"
            \/ /\ c.kind = "range"
               /\ c.sd = "mo" /\ c.ed = "su"
               /\ c.sh = 0 /\ c.sm = 0 /\ c.eh = 24 /\ c.em = 0

\* a matched clause has both day tokens known
ValidDays(c) == day_patterns(c.sd) > 0 /\ day_patterns(c.ed) > 0

\* num_days * hours_per_day of one matched clause, in minutes
ClauseMinutes(c) ==
    LET start_day == day_patterns(c.sd)
        end_day == day_patterns(c.ed)
        num_days == IF end_day >= start_day
                    THEN end_day - start_day + 1
                    ELSE (7 - start_day + 1) + end_day
        start_time == c.sh * 60 + c.sm
        end_time == c.eh * 60 + c.em
        per_day == IF end_time < start_time
                   THEN (24 * 60 - start_time) + end_time
                   ELSE end_time - start_time
    IN  num_days * per_day

RECURSIVE SumParts(_)
\* the loop over opening_hours_lower.split(';')
SumParts(parts) ==
    IF parts = << >> THEN 0
    ELSE (IF Head(parts).kind = "range" /\ ValidDays(Head(parts))
          THEN ClauseMinutes(Head(parts)) ELSE 0)
         + SumParts(Tail(parts))

\* OverpassClient.calculate_opening_hours_duration, in minutes per week
calculate_opening_hours_duration(opening_hours) ==
    IF opening_hours = << >> THEN 0
    ELSE IF is_24_7(opening_hours) THEN WEEK_MINUTES
    ELSE LET matches == SelectSeq(opening_hours, LAMBDA c : c.kind = "range")
         IN  \* re.search on the whole string: the leftmost matched clause
             IF matches # << >> /\ ValidDays(Head(matches))
             THEN ClauseMinutes(Head(matches))
             ELSE LET total_hours == SumParts(opening_hours)
                  IN  IF total_hours > 0 THEN Min(total_hours, WEEK_MINUTES) ELSE 0

(***************************************************************************)
(* Raw elements and POIs.                                                   *)
(***************************************************************************)
\* one element of the "elements" array of a response body; coords tells
\* where the element carries coordinates: "direct" (lat/lon keys), "center"
\* (a center object with lat/lon) or "none"
Element(type, coords, lon, name, hours, url, brand, wikidata) ==
    [ type |-> type, coords |-> coords, lat |-> 0, lon |-> lon, name |-> name,
      opening_hours |-> hours, url |-> url, brand |-> brand, operator |-> None,
      wikipedia |-> None, wikidata |-> wikidata ]

\* the lat/lon resolution at the head of the loop of filter_pois
HasCoordinates(element) ==
    \/ element.type = "node" /\ element.coords = "direct"
    \/ element.type = "way" /\ element.coords \in { "center", "direct" }

\* the POI(...) constructor call of filter_pois (google_maps_link and
\* price_range are functions of lat/lon and the tags and are left out)
MakePOI(route, element, poi_type, order, order_on_route) ==
    LET poi_point == [ lat |-> element.lat, lon |-> element.lon ]
        nearest == find_nearest_route_point_index(route, poi_point, order)
        nearest_route_point == route[nearest]
    IN  [ lat |-> element.lat, lon |-> element.lon,
          name |-> IF element.name # None THEN << element.name >>
                   ELSE default_name(poi_type),
          distance_to_route |-> haversine_distance(poi_point, nearest_route_point),
          distance_on_route |->
              calculate_distance_on_route(route, nearest_route_point, order_on_route),
          poi_type |-> poi_type,
          opening_hours |-> element.opening_hours,
          url |-> element.url, brand |-> element.brand,
          operator |-> element.operator, wikipedia |-> element.wikipedia,
          wikidata |-> element.wikidata ]

distance_on_route_key(poi) == << poi.distance_on_route >>

\* OverpassClient.filter_pois
filter_pois(route, elements, poi_type, max_distance_to_route, order, order_on_route) ==
    LET candidates == SelectSeq(elements, HasCoordinates)
        pois == [ i \in 1..Len(candidates) |->
                    MakePOI(route, candidates[i], poi_type, order, order_on_route) ]
        filtered_pois == SelectSeq(pois,
            LAMBDA poi : poi.distance_to_route <= max_distance_to_route)
    IN  StableSort(filtered_pois, distance_on_route_key)

(***************************************************************************)
(* Deduplication.                                                           *)
(***************************************************************************)
\* poi_settings: a function from some categories to
\* [max_deviation, deduplication_radius], -1 standing for a missing key
NoSettings == [ t \in {} |-> [ max_deviation |-> -1, deduplication_radius |-> -1 ] ]

\* poi_settings[poi_type].get('max_deviation_km', max_distance_to_route_km)
poi_max_distance(poi_settings, poi_type, max_distance_to_route) ==
    IF poi_type \in DOMAIN poi_settings /\ poi_settings[poi_type].max_deviation # -1
    THEN poi_settings[poi_type].max_deviation
    ELSE max_distance_to_route

\* mutant: the override of the settings is not looked up
poi_dedup_radius_ignoresOverride(poi_settings, poi_type, deduplication_radius) ==
    deduplication_radius

\* poi_settings[poi_type].get('deduplication_radius_km', deduplication_radius_km)
poi_dedup_radius(poi_settings, poi_type, deduplication_radius) ==
    IF poi_type \in DOMAIN poi_settings
       /\ poi_settings[poi_type].deduplication_radius # -1
    THEN poi_settings[poi_type].deduplication_radius
    ELSE deduplication_radius

Flag(b) == IF b THEN 1 ELSE 0

\* the sort key of deduplicate_pois
preference_key(p) ==
    << p.distance_to_route,
       -calculate_opening_hours_duration(p.opening_hours),
       Flag(~(p.brand # None \/ p.operator # None)),
       Flag(~(p.wikipedia # None \/ p.wikidata # None)),
       Flag(~(p.url # None)),
       Flag(~(p.name # << >>)) >>

RECURSIVE KeepPois_laterWins(_, _, _)
\* mutant: a POI nearer than the radius to kept ones takes their place
KeepPois_laterWins(type_pois, kept_pois, radius) ==
    IF type_pois = << >> THEN kept_pois
    ELSE LET poi == Head(type_pois)
             far == SelectSeq(kept_pois,
                              LAMBDA k : haversine_distance(poi, k) >= radius)
         IN  KeepPois_laterWins(Tail(type_pois), Append(far, poi), radius)

RECURSIVE KeepPois_againstPrevious(_, _, _)
\* mutant: a POI is compared with the one before it in the sorted list only
KeepPois_againstPrevious(type_pois, kept_pois, radius) ==
    IF Len(type_pois) <= 1 THEN kept_pois \o type_pois
    ELSE LET n == Len(type_pois)
             too_close == haversine_distance(type_pois[n], type_pois[n - 1]) < radius
         IN  KeepPois_againstPrevious(SubSeq(type_pois, 1, n - 1), kept_pois, radius)
             \o (IF too_close THEN << >> ELSE << type_pois[n] >>)

RECURSIVE KeepPois(_, _, _)
\* the greedy scan: keep a POI unless it is nearer than the radius to a kept one
KeepPois(type_pois, kept_pois, radius) ==
    IF type_pois = << >> THEN kept_pois
    ELSE LET poi == Head(type_pois)
             too_close == \E k \in DOMAIN kept_pois :
                              haversine_distance(poi, kept_pois[k]) < radius
         IN  KeepPois(Tail(type_pois),
                      IF too_close THEN kept_pois ELSE Append(kept_pois, poi),
                      radius)

RECURSIVE TypesInOrder(_, _)
\* the keys of pois_by_type, in insertion order
TypesInOrder(pois, seen) ==
    IF pois = << >> THEN seen
    ELSE TypesInOrder(Tail(pois),
                      IF Head(pois).poi_type \in Range(seen) THEN seen
                      ELSE Append(seen, Head(pois).poi_type))

\* mutant: the scan runs over the POIs of all categories, not over type_pois
DedupType_crossCategory(pois, poi_type, deduplication_radius, poi_settings) ==
    LET type_pois == SelectSeq(pois, LAMBDA p : p.poi_type = poi_type)
        kept == KeepPois(StableSort(pois, preference_key), << >>,
                         poi_dedup_radius(poi_settings, poi_type, deduplication_radius))
    IN  IF poi_type \in deduplicate_types
        THEN SelectSeq(kept, LAMBDA p : p.poi_type = poi_type)
        ELSE type_pois

\* the body of the loop over pois_by_type.items()
DedupType(pois, poi_type, deduplication_radius, poi_settings) ==
    LET type_pois == SelectSeq(pois, LAMBDA p : p.poi_type = poi_type)
    IN  IF poi_type \in deduplicate_types
        THEN KeepPois(StableSort(type_pois, preference_key), << >>,
                      poi_dedup_radius(poi_settings, poi_type, deduplication_radius))
        ELSE type_pois

RECURSIVE DedupTypes(_, _, _, _)
DedupTypes(types, pois, deduplication_radius, poi_settings) ==
    IF types = << >> THEN << >>
    ELSE DedupType(pois, Head(types), deduplication_radius, poi_settings)
         \o DedupTypes(Tail(types), pois, deduplication_radius, poi_settings)

\* OverpassClient.deduplicate_pois
deduplicate_pois(pois, deduplication_radius, poi_settings) ==
    DedupTypes(TypesInOrder(pois, << >>), pois, deduplication_radius, poi_settings)

(***************************************************************************)
(* The remote data and the inputs of the model.                             *)
(***************************************************************************)
Point(lon) == [ lat |-> 0, lon |-> lon ]

\* the route of the client: three points, 2 km and 3 km apart
RoutePoints == << Point(0), Point(2000), Point(5000) >>

MondayToFriday == << RangeClause("mo", "fr", 9, 0, 17, 0) >>

\* what the remote database holds for a category, in two variants
DenseElements ==
    << Element("node", "direct", 4900, "Shell", MondayToFriday, None, "Shell", None),
       Element("node", "direct", 100, None, << AlwaysClause >>, None, None, None),
       Element("way", "center", 600, "Aral", NoHours, "https://aral.de", None, "Q1"),
       Element("node", "direct", 7000, "Far", NoHours, None, None, None),
       Element("node", "none", 50, "Nowhere", NoHours, None, None, None) >>

SparseElements(poi_type) ==
    IF poi_type \in { "gas_stations", "bakeries", "water_fountains", "sport_areas" }
    THEN << Element("way", "direct", 1000, "Midway", NoHours, None, None, None),
            Element("node", "direct", 2100, None, NoHours, None, None, None) >>
    ELSE << >>

Worlds == { "dense", "sparse" }

\* a parsed response body: ok = FALSE is a JSON document that is not an
\* object with an "elements" array
Body(ok, elements) == [ ok |-> ok, elements |-> elements ]

NoBody == Body(FALSE, << >>)

RemoteBody(w, poi_type) ==
    Body(TRUE, IF w = "dense" THEN DenseElements ELSE SparseElements(poi_type))

\* the categories a caller's selection is drawn from
SelectableTypes == { "gas_stations", "bicycle_vending", "unknown_type" }

RECURSIVE SeqsUpTo(_, _)
SeqsUpTo(S, n) ==
    IF n = 0 THEN { << >> }
    ELSE LET shorter == SeqsUpTo(S, n - 1)
         IN  shorter \cup { Append(q, x) : q \in shorter, x \in S }

\* selected_poi_types: given = FALSE stands for None
Selections ==
    { [ given |-> FALSE, types |-> << >> ] }
    \cup { [ given |-> TRUE, types |-> q ] : q \in SeqsUpTo(SelectableTypes, MaxSelLen) }

SettingsChoices ==
    { NoSettings,
      [ t \in { "gas_stations", "bakeries" } |->
            IF t = "gas_stations"
            THEN [ max_deviation |-> 500, deduplication_radius |-> -1 ]
            ELSE [ max_deviation |-> -1, deduplication_radius |-> 400 ] ] }

\* HTTP status codes for which raise_for_status raises
ErrorStatuses == { 400, 404, 429, 503 }

(***************************************************************************)
(* Errors.                                                                  *)
(***************************************************************************)
Error(cls, kind) == [ cls |-> cls, kind |-> kind ]

NoError == Error(None, None)

ErrTimeout == Error("TimeoutError", "timed_out")
ErrRateLimit == Error("ConnectionError", "rate_limit_exceeded")
ErrBadRequest == Error("ValueError", "bad_request")
ErrServer == Error("ConnectionError", "server_error")
ErrHTTP == Error("ConnectionError", "http_error")
ErrInvalidJSON == Error("ValueError", "invalid_json")
ErrConnection == Error("ConnectionError", "connection_error")
ErrRequest == Error("ConnectionError", "request_failed")
ErrAllFailed == Error("ConnectionError", "all_attempts_failed")
ErrUnknownType == Error("ValueError", "unknown_poi_type")

(***************************************************************************)
(* State.                                                                   *)
(***************************************************************************)
VARIABLES
    call,               \* the entry point called: "query_all_poi_types" or "query_poi_type"
    selected_poi_types, \* argument of query_all_poi_types
    single_poi_type,    \* argument poi_type of a direct query_poi_type call
    max_retries,        \* argument max_retries of query_poi_type
    world,              \* what the remote database holds
    rtree_order,        \* how the R-tree of the route orders equidistant points
    poi_settings,       \* argument poi_settings
    pc,                 \* "start", "query" (about to send a request), "returned", "raised"
    poi_types,          \* query_all_poi_types: the list being iterated
    index,              \* query_all_poi_types: 1-based position in poi_types
    all_pois,           \* query_all_poi_types: all_pois
    url_index,          \* query_poi_type: position in overpass_urls
    attempt,            \* query_poi_type: attempt, 0-based
    last_error,         \* query_poi_type: last_error
    response,           \* value returned by a direct query_poi_type call
    returned,           \* list returned by query_all_poi_types
    raised,             \* error raised to the caller
    events,             \* history: callbacks, sleeps between categories, requests
    last_request,       \* history: the last request of the current query_poi_type call
    slept,              \* history: milliseconds slept since the last request
    failed,             \* history: number of categories skipped after a failure
    uniform,            \* history: the outcome all requests of the current
                        \* query_poi_type call had so far, else "mixed"
    finished,           \* history: "ok" or "failed" for each category done
    args,               \* the arguments of a call of another entry point
                        \* (deduplicate_pois, filter_pois, RouteCalculator, RouteStorage)
    result,             \* what that call returned
    routes,             \* RouteStorage._routes
    stored,             \* history: what each store call was given and returned
    threads,            \* the concurrent callers of one RouteStorage: what each
                        \* one calls, where it is, and its locals
    lock,               \* RouteStorage._lock: the caller holding it, or Unlocked
    stream_pc,          \* generate_poi_stream: the position of the generator
    got,                \* generate_poi_stream: how many items were taken from
                        \* progress_queue and from batch_queue
    stream              \* generate_poi_stream: the events yielded so far

vars ==
    << call, selected_poi_types, single_poi_type, max_retries, world, rtree_order,
       poi_settings, pc, poi_types, index, all_pois, url_index, attempt,
       last_error, response, returned, raised, events, last_request, slept,
       failed, uniform, finished, args, result, routes, stored,
       threads, lock, stream_pc, got, stream >>

\* the state of the concurrent callers of RouteStorage and of the generator
\* of the event stream
concurrent == << threads, lock, stream_pc, got, stream >>

\* the state of the entry points other than the two queries
standalone == << args, result, routes, stored, concurrent >>

\* what no step of a query changes: its arguments, the remote data, and
\* the state of the other entry points
inputs ==
    << call, selected_poi_types, single_poi_type, max_retries, world, rtree_order,
       poi_settings, standalone >>

(***************************************************************************)
(* History records.                                                         *)
(***************************************************************************)
Event(e, poi_type, current, total, pois, ms) ==
    [ e |-> e, poi_type |-> poi_type, current |-> current, total |-> total,
      pois |-> pois, ms |-> ms ]

\* progress_callback(poi_type, index, total_types)
ProgressEvent(poi_type, current, total) ==
    Event("progress", poi_type, current, total, << >>, 0)
\* batch_callback(poi_type, deduplicated_pois), for the category at position current
BatchEvent(poi_type, current, pois) == Event("batch", poi_type, current, 0, pois, 0)
\* time.sleep(delay_seconds) in query_all_poi_types, after the category at position current
SleepEvent(current, ms) == Event("sleep", None, current, 0, << >>, ms)
\* one or more requests.post calls for the category at position current
RequestEvent(current) == Event("request", None, current, 0, << >>, 0)

\* a request to overpass_urls[u] on attempt a, its outcome and, for a
\* response that parsed, the parsed body
Request(u, a, outcome, body) ==
    [ url |-> u, attempt |-> a, outcome |-> outcome, body |-> body ]

NoRequest == Request(0, 0, None, NoBody)

\* uniform after the request req
Seen(req) ==
    IF last_request = NoRequest THEN req.outcome
    ELSE IF uniform = req.outcome THEN uniform
    ELSE "mixed"

\* consecutive requests of one category are recorded once
WithRequest(evs) ==
    IF call = "query_all_poi_types"
       /\ (evs = << >> \/ evs[Len(evs)] # RequestEvent(index))
    THEN Append(evs, RequestEvent(index))
    ELSE evs

(***************************************************************************)
(* Initial states: the arguments of the call and the remote data.           *)
(***************************************************************************)
\* the locals and the history before the call starts
NothingDone ==
    /\ pc = "start"
    /\ poi_types = << >>
    /\ index = 0
    /\ all_pois = << >>
    /\ url_index = 0
    /\ attempt = 0
    /\ last_error = NoError
    /\ response = NoBody
    /\ returned = << >>
    /\ raised = NoError
    /\ events = << >>
    /\ last_request = NoRequest
    /\ slept = 0
    /\ failed = 0
    /\ uniform = None
    /\ finished = << >>

\* no call of another entry point: no arguments, an empty RouteStorage
NoArgs == << >>
NoRoutes == [ id \in {} |-> None ]

\* Lock(): the value of lock when no thread holds it
Unlocked == 0

\* nothing taken from the two queues of generate_poi_stream
NothingTaken == [ progress |-> 0, batch |-> 0 ]

\* one caller at a time and no event stream
NoConcurrency ==
    /\ threads = << >>
    /\ lock = Unlocked
    /\ stream_pc = None
    /\ got = NothingTaken
    /\ stream = << >>

Init ==
    /\ call \in { "query_all_poi_types", "query_poi_type" }
    /\ world \in Worlds
    /\ IF call = "query_all_poi_types"
       THEN /\ selected_poi_types \in Selections
            /\ single_poi_type = None
            /\ max_retries = DEFAULT_MAX_RETRIES
            \* only the sparse data holds an element equidistant from two route points
            /\ rtree_order \in IF world = "sparse" THEN { "first", "last" } ELSE { "first" }
            /\ poi_settings \in SettingsChoices
            \* without a selection all ten categories are queried: the remote
            \* data and the settings are varied for the shorter selections only
            /\ selected_poi_types.types = << >> =>
                   /\ world = "sparse"
                   /\ rtree_order = "first"
                   /\ poi_settings = NoSettings
       ELSE /\ selected_poi_types = [ given |-> FALSE, types |-> << >> ]
            /\ single_poi_type \in { "gas_stations", "unknown_type" }
            /\ max_retries \in 0..MaxRetriesBound
            /\ rtree_order = "first"
            /\ poi_settings = NoSettings
    /\ NothingDone
    /\ args = NoArgs
    /\ result = None
    /\ routes = NoRoutes
    /\ stored = << >>
    /\ NoConcurrency

(***************************************************************************)
(* query_all_poi_types: the loop over poi_types.                            *)
(***************************************************************************)
\* the sort and return after the loop
SortedByDistanceOnRoute(pois) == StableSort(pois, distance_on_route_key)

\* mutant: enumerate without start=1, progress reports a 0-based position
NextIteration_zeroBased(ap, evs, req, skipped) ==
    /\ failed + skipped <= MaxFailedCategories
    /\ failed' = failed + skipped
    /\ finished' = Append(finished, IF skipped = 1 THEN "failed" ELSE "ok")
    /\ all_pois' = ap
    /\ last_error' = NoError
    /\ slept' = 0
    /\ UNCHANGED << poi_types, response, raised >>
    /\ IF index < Len(poi_types)
       THEN /\ index' = index + 1
            /\ events' = Append(evs, ProgressEvent(poi_types[index + 1], index,
                                                   Len(poi_types)))
            /\ pc' = "query"
            /\ url_index' = 1
            /\ attempt' = 0
            /\ last_request' = NoRequest
            /\ uniform' = None
            /\ returned' = returned
       ELSE /\ pc' = "returned"
            /\ returned' = SortedByDistanceOnRoute(ap)
            /\ events' = evs
            /\ UNCHANGED << index, url_index, attempt >>
            /\ last_request' = req
            /\ uniform' = Seen(req)

\* The category at position index is finished, with all_pois now ap and the
\* history now evs: either the next iteration starts (progress callback, then
\* query_poi_type is entered) or the loop ends and the sorted list is returned.
NextIteration(ap, evs, req, skipped) ==
    /\ failed + skipped <= MaxFailedCategories
    /\ failed' = failed + skipped
    /\ finished' = Append(finished, IF skipped = 1 THEN "failed" ELSE "ok")
    /\ all_pois' = ap
    /\ last_error' = NoError
    /\ slept' = 0
    /\ UNCHANGED << poi_types, response, raised >>
    /\ IF index < Len(poi_types)
       THEN /\ index' = index + 1
            /\ events' = Append(evs, ProgressEvent(poi_types[index + 1], index + 1,
                                                   Len(poi_types)))
            /\ pc' = "query"
            /\ url_index' = 1
            /\ attempt' = 0
            /\ last_request' = NoRequest
            /\ uniform' = None
            /\ returned' = returned
       ELSE /\ pc' = "returned"
            /\ returned' = SortedByDistanceOnRoute(ap)
            /\ events' = evs
            /\ UNCHANGED << index, url_index, attempt >>
            /\ last_request' = req
            /\ uniform' = Seen(req)

\* mutant: the batch callback receives the POIs before deduplication
ProcessCategory_rawBatch(body, evs, req) ==
    LET poi_type == poi_types[index]
        max_distance == poi_max_distance(poi_settings, poi_type, DEFAULT_MAX_DISTANCE_M)
        filtered_pois == filter_pois(RoutePoints, body.elements, poi_type,
                                     max_distance, rtree_order, rtree_order)
        deduplicated_pois == deduplicate_pois(filtered_pois, DEFAULT_DEDUP_RADIUS_M,
                                              poi_settings)
        batched == Append(evs, BatchEvent(poi_type, index, filtered_pois))
        delayed == IF poi_type # poi_types[Len(poi_types)]
                   THEN Append(batched, SleepEvent(index, DELAY_MS))
                   ELSE batched
    IN  IF body.ok
        THEN NextIteration(all_pois \o deduplicated_pois, delayed, req, 0)
        ELSE NextIteration(all_pois, evs, req, 1)

\* the rest of the try block once query_poi_type has returned body
ProcessCategory(body, evs, req) ==
    LET poi_type == poi_types[index]
        max_distance == poi_max_distance(poi_settings, poi_type, DEFAULT_MAX_DISTANCE_M)
        filtered_pois == filter_pois(RoutePoints, body.elements, poi_type,
                                     max_distance, rtree_order, rtree_order)
        deduplicated_pois == deduplicate_pois(filtered_pois, DEFAULT_DEDUP_RADIUS_M,
                                              poi_settings)
        batched == Append(evs, BatchEvent(poi_type, index, deduplicated_pois))
        delayed == IF poi_type # poi_types[Len(poi_types)]
                   THEN Append(batched, SleepEvent(index, DELAY_MS))
                   ELSE batched
    IN  IF body.ok
        THEN NextIteration(all_pois \o deduplicated_pois, delayed, req, 0)
        ELSE \* overpass_data.get raises; except Exception: continue
             NextIteration(all_pois, evs, req, 1)

(***************************************************************************)
(* query_poi_type: how one request's outcome continues the two loops.       *)
(***************************************************************************)
\* mutant: a successful response does not end the loop (missing return)
Return_continues(body, req) ==
    /\ pc' = "query"
    /\ response' = body
    /\ last_request' = req
    /\ uniform' = Seen(req)
    /\ slept' = 0
    /\ events' = WithRequest(events)
    /\ UNCHANGED << poi_types, index, all_pois, url_index, attempt,
                    last_error, returned, raised, failed, finished >>

\* return response.json()
Return(body, req) ==
    IF call = "query_poi_type"
    THEN /\ pc' = "returned"
         /\ response' = body
         /\ last_request' = req
         /\ uniform' = Seen(req)
         /\ slept' = 0
         /\ events' = events
         /\ UNCHANGED << poi_types, index, all_pois, url_index, attempt,
                         last_error, returned, raised, failed, finished >>
    ELSE ProcessCategory(body, WithRequest(events), req)

\* mutant: the exception of a failed category is not caught by the loop
Raise_uncaught(err, req) ==
    /\ pc' = "raised"
    /\ raised' = err
    /\ last_error' = err
    /\ last_request' = req
    /\ uniform' = Seen(req)
    /\ slept' = 0
    /\ events' = events
    /\ UNCHANGED << poi_types, index, all_pois, url_index, attempt,
                    response, returned, failed, finished >>

\* mutant: the error recorded first is kept (last_error = last_error or err)
Raise_first(err, req) ==
    IF call = "query_poi_type"
    THEN /\ pc' = "raised"
         /\ raised' = IF last_error # NoError THEN last_error ELSE err
         /\ last_error' = raised'
         /\ last_request' = req
         /\ uniform' = Seen(req)
         /\ slept' = 0
         /\ events' = events
         /\ UNCHANGED << poi_types, index, all_pois, url_index, attempt,
                         response, returned, failed, finished >>
    ELSE NextIteration(all_pois, WithRequest(events), req, 1)

\* mutant: the loop over the categories catches ConnectionError only
Raise_catchesConnectionErrorOnly(err, req) ==
    IF call = "query_poi_type" \/ err.cls # "ConnectionError"
    THEN /\ pc' = "raised"
         /\ raised' = err
         /\ last_error' = err
         /\ last_request' = req
         /\ uniform' = Seen(req)
         /\ slept' = 0
         /\ events' = events
         /\ UNCHANGED << poi_types, index, all_pois, url_index, attempt,
                         response, returned, failed, finished >>
    ELSE NextIteration(all_pois, WithRequest(events), req, 1)

\* raise last_error
Raise(err, req) ==
    IF call = "query_poi_type"
    THEN /\ pc' = "raised"
         /\ raised' = err
         /\ last_error' = err
         /\ last_request' = req
         /\ uniform' = Seen(req)
         /\ slept' = 0
         /\ events' = events
         /\ UNCHANGED << poi_types, index, all_pois, url_index, attempt,
                         response, returned, failed, finished >>
    ELSE \* except Exception in query_all_poi_types: continue
         NextIteration(all_pois, WithRequest(events), req, 1)

\* break: leave the attempt loop of this endpoint
NextEndpoint(err, req) ==
    IF url_index < Len(overpass_urls)
    THEN /\ pc' = "query"
         /\ url_index' = url_index + 1
         /\ attempt' = 0
         /\ last_error' = err
         /\ last_request' = req
         /\ uniform' = Seen(req)
         /\ slept' = 0
         /\ events' = WithRequest(events)
         /\ UNCHANGED << poi_types, index, all_pois, response, returned, raised,
                         failed, finished >>
    ELSE Raise(err, req)

\* mutant: one attempt more than max_retries on every endpoint
RetryOrNextEndpoint_extraAttempt(err, req, wait) ==
    IF attempt < max_retries
    THEN /\ pc' = "query"
         /\ attempt' = attempt + 1
         /\ last_error' = err
         /\ last_request' = req
         /\ uniform' = Seen(req)
         /\ slept' = wait
         /\ events' = WithRequest(events)
         /\ UNCHANGED << poi_types, index, all_pois, url_index, response,
                         returned, raised, failed, finished >>
    ELSE NextEndpoint(err, req)

\* if attempt < max_retries - 1: time.sleep(wait); continue -- else: break
RetryOrNextEndpoint(err, req, wait) ==
    IF attempt < max_retries - 1
    THEN /\ pc' = "query"
         /\ attempt' = attempt + 1
         /\ last_error' = err
         /\ last_request' = req
         /\ uniform' = Seen(req)
         /\ slept' = wait
         /\ events' = WithRequest(events)
         /\ UNCHANGED << poi_types, index, all_pois, url_index, response,
                         returned, raised, failed, finished >>
    ELSE NextEndpoint(err, req)

\* the category the current request asks for
CurrentType ==
    IF call = "query_poi_type" THEN single_poi_type ELSE poi_types[index]

(***************************************************************************)
(* Actions.                                                                 *)
(***************************************************************************)
\* mutant: only the first selected type is validated
query_all_poi_types_checksFirst ==
    /\ pc = "start"
    /\ call = "query_all_poi_types"
    /\ LET sel == selected_poi_types.types
           truthy == selected_poi_types.given /\ sel # << >>
       IN  IF truthy /\ sel[1] \notin POI_TYPE_CONFIG
           THEN /\ pc' = "raised"
                /\ raised' = ErrUnknownType
                /\ UNCHANGED << poi_types, index, all_pois, url_index, attempt,
                                last_error, response, returned, events,
                                last_request, slept, failed, finished >>
           ELSE LET types == IF truthy THEN sel ELSE POI_TYPES
                IN  /\ poi_types' = types
                    /\ index' = 1
                    /\ events' = << ProgressEvent(types[1], 1, Len(types)) >>
                    /\ pc' = "query"
                    /\ url_index' = 1
                    /\ attempt' = 0
                    /\ UNCHANGED << all_pois, last_error, response, returned,
                                    raised, last_request, slept, failed, finished >>
    /\ UNCHANGED << inputs, uniform >>

\* mutant: the selection is tested with "is not None", so that an empty
\* selection is iterated and nothing is queried
query_all_poi_types_emptySelectionKept ==
    /\ pc = "start"
    /\ call = "query_all_poi_types"
    /\ LET sel == selected_poi_types.types
           given == selected_poi_types.given
           invalid_types == SelectSeq(sel, LAMBDA t : t \notin POI_TYPE_CONFIG)
       IN  IF given /\ invalid_types # << >>
           THEN /\ pc' = "raised"
                /\ raised' = ErrUnknownType
                /\ UNCHANGED << poi_types, index, all_pois, url_index, attempt,
                                last_error, response, returned, events,
                                last_request, slept, failed, finished >>
           ELSE IF given /\ sel = << >>
           THEN /\ pc' = "returned"
                /\ returned' = << >>
                /\ UNCHANGED << poi_types, index, all_pois, url_index, attempt,
                                last_error, response, raised, events,
                                last_request, slept, failed, finished >>
           ELSE LET types == IF given THEN sel ELSE POI_TYPES
                IN  /\ poi_types' = types
                    /\ index' = 1
                    /\ events' = << ProgressEvent(types[1], 1, Len(types)) >>
                    /\ pc' = "query"
                    /\ url_index' = 1
                    /\ attempt' = 0
                    /\ UNCHANGED << all_pois, last_error, response, returned,
                                    raised, last_request, slept, failed, finished >>
    /\ UNCHANGED << inputs, uniform >>

\* query_all_poi_types is called: validation of the selection, then the
\* first iteration up to its first request
query_all_poi_types ==
    /\ pc = "start"
    /\ call = "query_all_poi_types"
    /\ LET sel == selected_poi_types.types
           truthy == selected_poi_types.given /\ sel # << >>
           invalid_types == SelectSeq(sel, LAMBDA t : t \notin POI_TYPE_CONFIG)
       IN  IF truthy /\ invalid_types # << >>
           THEN /\ pc' = "raised"
                /\ raised' = ErrUnknownType
                /\ UNCHANGED << poi_types, index, all_pois, url_index, attempt,
                                last_error, response, returned, events,
                                last_request, slept, failed, finished >>
           ELSE LET types == IF truthy THEN sel ELSE POI_TYPES
                IN  /\ poi_types' = types
                    /\ index' = 1
                    /\ events' = << ProgressEvent(types[1], 1, Len(types)) >>
                    /\ pc' = "query"
                    /\ url_index' = 1
                    /\ attempt' = 0
                    /\ UNCHANGED << all_pois, last_error, response, returned,
                                    raised, last_request, slept, failed, finished >>
    /\ UNCHANGED << inputs, uniform >>

\* query_poi_type is called directly: the check of poi_type, then the loops
\* up to the first request
query_poi_type ==
    /\ pc = "start"
    /\ call = "query_poi_type"
    /\ IF single_poi_type \notin POI_TYPE_CONFIG
       THEN /\ pc' = "raised"
            /\ raised' = ErrUnknownType
            /\ UNCHANGED << url_index, attempt >>
       ELSE IF max_retries = 0
       THEN \* no attempt is made: last_error is still None
            /\ pc' = "raised"
            /\ raised' = ErrAllFailed
            /\ UNCHANGED << url_index, attempt >>
       ELSE /\ pc' = "query"
            /\ url_index' = 1
            /\ attempt' = 0
            /\ raised' = raised
    /\ UNCHANGED << poi_types, index, all_pois, last_error, response, returned,
                    events, last_request, slept, failed, finished, uniform >>
    /\ UNCHANGED inputs

StatusOutcome(status) ==
    CASE status = 400 -> "http_400" [] status = 404 -> "http_404"
      [] status = 429 -> "http_429" [] status = 503 -> "http_503"

\* requests.post succeeds, raise_for_status passes and the body parses
OnResponse ==
    /\ pc = "query"
    /\ \E body \in { RemoteBody(world, CurrentType), NoBody } :
           Return(body, Request(url_index, attempt, "ok", body))
    /\ UNCHANGED inputs

\* mutant: a fixed wait of one second instead of 2 ** attempt
OnTimeout_fixedBackoff ==
    /\ pc = "query"
    /\ RetryOrNextEndpoint(ErrTimeout,
                           Request(url_index, attempt, "timeout", NoBody), 1000)
    /\ UNCHANGED inputs

\* except requests.exceptions.Timeout
OnTimeout ==
    /\ pc = "query"
    /\ RetryOrNextEndpoint(ErrTimeout, Request(url_index, attempt, "timeout", NoBody),
                           1000 * Pow2(attempt))
    /\ UNCHANGED inputs

\* mutant: a rate-limit response is not retried on the same endpoint
OnHTTPError_noRateLimitRetry ==
    /\ pc = "query"
    /\ \E status_code \in ErrorStatuses :
           LET req == Request(url_index, attempt, StatusOutcome(status_code), NoBody)
           IN  IF status_code = 429
               THEN NextEndpoint(ErrRateLimit, req)
               ELSE IF status_code = 400
               THEN NextEndpoint(ErrBadRequest, req)
               ELSE IF status_code >= 500 /\ status_code < 600
               THEN RetryOrNextEndpoint(ErrServer, req, 1000 * Pow2(attempt))
               ELSE NextEndpoint(ErrHTTP, req)
    /\ UNCHANGED inputs

\* except requests.exceptions.HTTPError
OnHTTPError ==
    /\ pc = "query"
    /\ \E status_code \in ErrorStatuses :
           LET req == Request(url_index, attempt, StatusOutcome(status_code), NoBody)
           IN  IF status_code = 429
               THEN RetryOrNextEndpoint(ErrRateLimit, req, RATE_LIMIT_WAIT_MS)
               ELSE IF status_code = 400
               THEN NextEndpoint(ErrBadRequest, req)
               ELSE IF status_code >= 500 /\ status_code < 600
               THEN RetryOrNextEndpoint(ErrServer, req, 1000 * Pow2(attempt))
               ELSE NextEndpoint(ErrHTTP, req)
    /\ UNCHANGED inputs

\* mutant: an unparsable body is retried like a transport failure
OnJSONDecodeError_retries ==
    /\ pc = "query"
    /\ RetryOrNextEndpoint(ErrInvalidJSON,
                           Request(url_index, attempt, "invalid_json", NoBody),
                           1000 * Pow2(attempt))
    /\ UNCHANGED inputs

\* except requests.exceptions.JSONDecodeError
OnJSONDecodeError ==
    /\ pc = "query"
    /\ NextEndpoint(ErrInvalidJSON, Request(url_index, attempt, "invalid_json", NoBody))
    /\ UNCHANGED inputs

\* except requests.exceptions.ConnectionError
OnConnectionError ==
    /\ pc = "query"
    /\ RetryOrNextEndpoint(ErrConnection,
                           Request(url_index, attempt, "connection_error", NoBody),
                           1000 * Pow2(attempt))
    /\ UNCHANGED inputs

\* except requests.exceptions.RequestException
OnRequestException ==
    /\ pc = "query"
    /\ RetryOrNextEndpoint(ErrRequest,
                           Request(url_index, attempt, "request_exception", NoBody),
                           1000 * Pow2(attempt))
    /\ UNCHANGED inputs

Next ==
    \/ query_all_poi_types
    \/ query_poi_type
    \/ OnResponse
    \/ OnTimeout
    \/ OnHTTPError
    \/ OnJSONDecodeError
    \/ OnConnectionError
    \/ OnRequestException

Spec == Init /\ [][Next]_vars

(***************************************************************************)
(* Vocabulary of the properties.                                            *)
(***************************************************************************)
\* the positions of the events of kind e for the category at position i
EventsAt(e, i) ==
    { k \in DOMAIN events : events[k].e = e /\ events[k].current = i }

\* the batches reported so far, concatenated in the order of their report
RECURSIVE BatchedPois(_)
BatchedPois(evs) ==
    IF evs = << >> THEN << >>
    ELSE (IF Head(evs).e = "batch" THEN Head(evs).pois ELSE << >>)
         \o BatchedPois(Tail(evs))

Occurrences(seq, x) == Cardinality({ k \in DOMAIN seq : seq[k] = x })

SameMultiset(a, b) ==
    /\ Len(a) = Len(b)
    /\ \A k \in DOMAIN a : Occurrences(a, a[k]) = Occurrences(b, a[k])

\* what the category at position i yields when it is processed alone
BatchAlone(i) ==
    deduplicate_pois(
        filter_pois(RoutePoints, RemoteBody(world, poi_types[i]).elements,
                    poi_types[i],
                    poi_max_distance(poi_settings, poi_types[i], DEFAULT_MAX_DISTANCE_M),
                    rtree_order, rtree_order),
        DEFAULT_DEDUP_RADIUS_M, poi_settings)

\* the caller's selection names a category that POI_TYPE_CONFIG does not have
SelectionHasUnknown ==
    /\ call = "query_all_poi_types"
    /\ \E k \in DOMAIN selected_poi_types.types :
           selected_poi_types.types[k] \notin POI_TYPE_CONFIG

(***************************************************************************)
(* C1.  When some of the requested categories fail, query_all_poi_types     *)
(* still returns normally; the returned list holds exactly the POIs of the  *)
(* batches of the categories that succeeded, in ascending order of          *)
(* distance_on_route, and each such batch is what its category yields on    *)
(* its own, whatever happened to the other categories.                      *)
(***************************************************************************)
C1_PartialFailureUnion ==
    /\ (call = "query_all_poi_types" /\ ~SelectionHasUnknown) => pc # "raised"
    /\ (call = "query_all_poi_types" /\ pc = "returned") =>
          /\ Len(finished) = Len(poi_types)
          /\ SameMultiset(returned, BatchedPois(events))
          /\ \A a, b \in DOMAIN returned :
                a < b => returned[a].distance_on_route <= returned[b].distance_on_route
          /\ \A i \in DOMAIN finished :
                finished[i] = "ok" =>
                    \E k \in EventsAt("batch", i) : events[k].pois = BatchAlone(i)

\* an acquisition of two categories has returned POIs although one failed
C1_Witness ==
    /\ call = "query_all_poi_types"
    /\ pc = "returned"
    /\ finished = << "failed", "ok" >>
    /\ Len(returned) >= 2

(***************************************************************************)
(* C2.  In query_poi_type the first successful response ends the call: its  *)
(* parsed body is what the call returns, and no request follows it, neither *)
(* to the same endpoint nor to a later one.                                 *)
(***************************************************************************)
C2_FirstSuccessEndsCall ==
    last_request.outcome = "ok" =>
        /\ pc = "returned"
        /\ call = "query_poi_type" => response = last_request.body
        /\ call = "query_all_poi_types" =>
              finished[Len(finished)] = IF last_request.body.ok THEN "ok" ELSE "failed"

\* a direct call has returned the body of a response that came from the
\* second endpoint on its second attempt, after failures
C2_Witness ==
    /\ call = "query_poi_type"
    /\ pc = "returned"
    /\ last_request.url = 2
    /\ last_request.attempt = 1
    /\ last_error # NoError
    /\ response = RemoteBody(world, single_poi_type)

(***************************************************************************)
(* C3.  When all endpoints are exhausted without a success (max_retries at  *)
(* least 1), query_poi_type raises the error that classifies the last       *)
(* failed attempt, which is the final attempt on the final endpoint,        *)
(* whatever the earlier attempts produced.                                  *)
(***************************************************************************)
RetriedOutcomes ==
    { "timeout", "http_429", "http_503", "connection_error", "request_exception" }

ClassOfOutcome(outcome) ==
    CASE outcome = "timeout" -> "TimeoutError"
      [] outcome \in { "http_400", "invalid_json" } -> "ValueError"
      [] OTHER -> "ConnectionError"

KindOfOutcome(outcome) ==
    CASE outcome = "timeout" -> "timed_out"
      [] outcome = "http_429" -> "rate_limit_exceeded"
      [] outcome = "http_400" -> "bad_request"
      [] outcome = "http_503" -> "server_error"
      [] outcome = "http_404" -> "http_error"
      [] outcome = "invalid_json" -> "invalid_json"
      [] outcome = "connection_error" -> "connection_error"
      [] outcome = "request_exception" -> "request_failed"
      [] OTHER -> None

ExhaustedDirectCall ==
    /\ call = "query_poi_type"
    /\ pc = "raised"
    /\ single_poi_type \in POI_TYPE_CONFIG
    /\ max_retries >= 1

BackoffOutcomes == { "timeout", "http_503", "connection_error", "request_exception" }

C4_BackoffThenFailover ==
    (pc = "query" /\ last_request.outcome \in BackoffOutcomes) =>
        LET k == last_request.attempt
        IN  /\ k <= max_retries - 1
            /\ k < max_retries - 1 =>
                  /\ url_index = last_request.url
                  /\ attempt = k + 1
                  /\ slept = 1000 * (2 ^ k)
            /\ k = max_retries - 1 =>
                  /\ url_index = last_request.url + 1
                  /\ attempt = 0
                  /\ slept = 0

\* the third attempt on an endpoint is about to be sent, two seconds after
\* the second attempt timed out
C4_Witness ==
    /\ pc = "query"
    /\ last_request.outcome = "timeout"
    /\ last_request.attempt = 1
    /\ attempt = 2
    /\ slept = 2000

(***************************************************************************)
(* C5.  While every request is answered with a rate-limit response (429),   *)
(* query_poi_type waits the fixed cooldown and retries the same endpoint    *)
(* until max_retries attempts were made on it, then moves to the next       *)
(* endpoint; after the last endpoint it raises the rate-limit error, of     *)
(* class ConnectionError, and returns no data.                              *)
(***************************************************************************)
C5_AllRateLimited ==
    uniform = "http_429" =>
        LET k == last_request.attempt
        IN  /\ pc = "query" =>
                  IF k < max_retries - 1
                  THEN /\ url_index = last_request.url
                       /\ attempt = k + 1
                       /\ slept = RATE_LIMIT_WAIT_MS
                  ELSE /\ url_index = last_request.url + 1
                       /\ attempt = 0
            /\ pc # "query" =>
                  /\ last_request.url = Len(overpass_urls)
                  /\ k = max_retries - 1
            /\ (call = "query_poi_type" /\ pc # "query") =>
                  /\ pc = "raised"
                  /\ raised.cls = "ConnectionError"
                  /\ raised.kind = "rate_limit_exceeded"
                  /\ response = NoBody
            /\ (call = "query_all_poi_types" /\ pc # "query") =>
                  /\ finished[Len(finished)] = "failed"
                  /\ EventsAt("batch", index) = {}

\* a direct call with three retries per endpoint has failed after nothing
\* but rate-limit responses
C5_Witness ==
    /\ call = "query_poi_type"
    /\ max_retries = 3
    /\ uniform = "http_429"
    /\ pc = "raised"
    /\ raised = ErrRateLimit

(***************************************************************************)
(* C6.  After a client error (400 or another 4xx that is not 429) or an     *)
(* unparsable body no further request goes to that endpoint: the next       *)
(* request goes to the next endpoint at once; and when every endpoint       *)
(* answers with an unparsable body the call raises a ValueError.            *)
(***************************************************************************)
NoRetryOutcomes == { "http_400", "http_404", "invalid_json" }

C7_UnknownCategoryRejected ==
    (\/ SelectionHasUnknown
     \/ call = "query_poi_type" /\ single_poi_type \notin POI_TYPE_CONFIG) =>
        /\ pc \in { "start", "raised" }
        /\ events = << >>
        /\ last_request = NoRequest
        /\ pc = "raised" => raised.cls = "ValueError"

\* the selection whose second entry is unknown has been rejected
C7_Witness ==
    /\ call = "query_all_poi_types"
    /\ selected_poi_types.types = << "gas_stations", "unknown_type" >>
    /\ pc = "raised"
    /\ raised = ErrUnknownType
    /\ events = << >>

(***************************************************************************)
(* C8.  The categories are processed one at a time in the order of the      *)
(* list: progress (category, i, n) is reported exactly once for the         *)
(* category at position i, before any request for it and after every        *)
(* request of the category at position i - 1.                               *)
(***************************************************************************)
C8_SequentialProgress ==
    call = "query_all_poi_types" =>
        LET progress == { k \in DOMAIN events : events[k].e = "progress" }
            request == { k \in DOMAIN events : events[k].e = "request" }
        IN  /\ \A i \in 1..index :
                  LET reports == { k \in progress : events[k].current = i }
                  IN  /\ Cardinality(reports) = 1
                      /\ \A k \in reports :
                             events[k] = ProgressEvent(poi_types[i], i, Len(poi_types))
            /\ \A k \in progress \cup request : events[k].current \in 1..index
            /\ \A a \in request, b \in progress :
                  a < b <=> events[a].current < events[b].current
            /\ \A a, b \in request :
                  a < b => events[a].current < events[b].current

\* two categories have been queried, one after the other
C8_Witness ==
    /\ call = "query_all_poi_types"
    /\ pc = "returned"
    /\ Len(poi_types) = 2
    /\ EventsAt("request", 1) # {}
    /\ EventsAt("request", 2) # {}
    /\ EventsAt("progress", 2) # {}

(***************************************************************************)
(* C9.  For every category whose query and parse succeed the batch          *)
(* callback is invoked exactly once, with the deduplicated POIs of that     *)
(* category, after the category's progress report and before the progress   *)
(* report and the requests of the next category; for a category that fails  *)
(* no batch is reported.                                                    *)
(***************************************************************************)
C9_BatchPerSuccessfulCategory ==
    call = "query_all_poi_types" =>
        LET batch == { k \in DOMAIN events : events[k].e = "batch" }
            around(i) == { k \in DOMAIN events :
                             /\ events[k].e \in { "progress", "request" }
                             /\ events[k].current \in { i, i + 1 } }
        IN  /\ \A i \in DOMAIN finished :
                  LET reports == { k \in batch : events[k].current = i }
                  IN  IF finished[i] = "ok"
                      THEN /\ Cardinality(reports) = 1
                           /\ \A k \in reports :
                                  /\ events[k] = BatchEvent(poi_types[i], i, BatchAlone(i))
                                  /\ \A p \in around(i) :
                                         p < k <=> events[p].current = i
                      ELSE reports = {}
            /\ \A k \in batch : events[k].current \in DOMAIN finished

\* the first of two categories succeeded with a batch from which
\* deduplication removed a POI, the second failed
C9_Witness ==
    /\ call = "query_all_poi_types"
    /\ pc = "returned"
    /\ finished = << "ok", "failed" >>
    /\ world = "dense"
    /\ poi_types[1] = "gas_stations"
    /\ poi_settings = NoSettings
    /\ \E k \in EventsAt("batch", 1) : Len(events[k].pois) = 2

(***************************************************************************)
(* C10.  Between any two consecutive categories the fixed delay is waited   *)
(* before the first request of the later one, whether the earlier category  *)
(* succeeded or failed and whatever the selection; no delay follows the     *)
(* last category.                                                           *)
(***************************************************************************)
C10_DelayBetweenCategories ==
    call = "query_all_poi_types" =>
        /\ \A i \in DOMAIN finished :
              i < Len(poi_types) =>
                  \E k \in EventsAt("sleep", i) :
                      /\ events[k].ms = DELAY_MS
                      /\ \A r \in EventsAt("request", i) : r < k
                      /\ \A r \in EventsAt("request", i + 1) : k < r
        /\ EventsAt("sleep", Len(poi_types)) = {}


(***************************************************************************)
(* C11: the list an acquisition returns is deduplicated: no two POIs of    *)
(* one category in it are nearer to each other (great-circle distance)     *)
(* than the deduplication radius of that category, whatever sequence of    *)
(* known categories the caller selects and whichever categories fail.      *)
(***************************************************************************)
C11_ReturnedDeduplicated ==
    (call = "query_all_poi_types" /\ pc = "returned") =>
        \A i, j \in DOMAIN returned :
            (i < j /\ returned[i].poi_type = returned[j].poi_type) =>
                haversine_distance(returned[i], returned[j])
                    >= poi_dedup_radius(poi_settings, returned[i].poi_type,
                                        DEFAULT_DEDUP_RADIUS_M)

(***************************************************************************)
(* The other entry points, each called on its own.  A step of one of them  *)
(* leaves the arguments and the locals of the queries alone.                *)
(***************************************************************************)
\* no query is made: the arguments of the queries have their defaults
NoQuery ==
    /\ selected_poi_types = [ given |-> FALSE, types |-> << >> ]
    /\ single_poi_type = None
    /\ max_retries = DEFAULT_MAX_RETRIES
    /\ world = "dense"
    /\ rtree_order = "first"
    /\ poi_settings = NoSettings
    /\ NothingDone

(***************************************************************************)
(* deduplicate_pois called on a list of POIs.                               *)
(***************************************************************************)
\* POI(...): the dataclass of poi.py (google_maps_link and price_range,
\* which no code modelled here reads, are left out)
POI(lon, name, distance_to_route, poi_type, opening_hours, url, brand, operator, wikipedia, wikidata) ==
    [ lat |-> 0, lon |-> lon, name |-> name,
      distance_to_route |-> distance_to_route, distance_on_route |-> 0,
      poi_type |-> poi_type, opening_hours |-> opening_hours, url |-> url,
      brand |-> brand, operator |-> operator, wikipedia |-> wikipedia,
      wikidata |-> wikidata ]

\* the attributes the preference key reads, in the combinations tried
Profile(distance_to_route, opening_hours, brand, operator, wikipedia, wikidata, url, name) ==
    [ distance_to_route |-> distance_to_route, opening_hours |-> opening_hours,
      brand |-> brand, operator |-> operator, wikipedia |-> wikipedia,
      wikidata |-> wikidata, url |-> url, name |-> name ]

Profiles ==
    { Profile(100, NoHours, None, None, None, None, None, << >>),
      Profile(200, << AlwaysClause >>, None, None, None, None, None, << >>),
      Profile(200, MondayToFriday, "Brand A", None, None, None, None, << >>),
      Profile(200, MondayToFriday, None, "Operator B", None, None, None, << >>),
      Profile(200, MondayToFriday, None, None, "en:Place", None, None, << >>),
      Profile(200, MondayToFriday, None, None, None, "Q1", None, << >>),
      Profile(200, MondayToFriday, None, None, None, None, "https://poi.example", << >>),
      Profile(200, MondayToFriday, None, None, None, None, None, << "Named" >>),
      Profile(200, MondayToFriday, None, None, None, None, None, << >>),
      Profile(200, NoHours, "Brand A", None, "en:Place", None, "https://poi.example",
              << "Named" >>) }

ProfiledPOI(lon, poi_type, q) ==
    POI(lon, q.name, q.distance_to_route, poi_type, q.opening_hours, q.url,
        q.brand, q.operator, q.wikipedia, q.wikidata)

\* how far apart the two POIs of a pair lie: nearer than both radii tried,
\* exactly at the overridden radius, between the two, at the default radius,
\* beyond it
Gaps == { 300, 400, 700, 1000, 1400 }

\* two POIs of one category
PoiPairs ==
    { << ProfiledPOI(0, t, qa), ProfiledPOI(gap, t, qb) >> :
        t \in Range(POI_TYPES), qa \in Profiles, qb \in Profiles, gap \in Gaps }

\* the longest list of POIs of mixed categories tried
MaxPois == 3

MixedTypes == { "bakeries", "gas_stations" }

\* POIs of two deduplicated categories and one POI of a category that
\* deduplicate_types leaves out
MixedPOIs ==
    { ProfiledPOI(lon, t, q) :
        lon \in { 0, 400, 1000 }, t \in MixedTypes,
        q \in { Profile(100, NoHours, None, None, None, None, None, << >>),
                Profile(200, << AlwaysClause >>, None, None, None, None, None, << >>) } }
    \cup { ProfiledPOI(400, "bicycle_vending",
                       Profile(100, NoHours, None, None, None, None, None, << >>)) }

DedupArgs ==
    { [ pois |-> ps, deduplication_radius |-> DEFAULT_DEDUP_RADIUS_M, poi_settings |-> st ] :
        ps \in PoiPairs \cup SeqsUpTo(MixedPOIs, MaxPois), st \in SettingsChoices }

DedupInit ==
    /\ call = "deduplicate_pois"
    /\ args \in DedupArgs
    /\ result = None
    /\ routes = NoRoutes
    /\ stored = << >>
    /\ NoConcurrency
    /\ NoQuery

\* one call of deduplicate_pois
DeduplicatePois ==
    /\ call = "deduplicate_pois"
    /\ pc = "start"
    /\ result' = deduplicate_pois(args.pois, args.deduplication_radius,
                                  args.poi_settings)
    /\ pc' = "returned"
    /\ UNCHANGED << call, args, routes, stored >>
    /\ UNCHANGED << selected_poi_types, single_poi_type, max_retries, world,
                    rtree_order, poi_settings, poi_types, index, all_pois,
                    url_index, attempt, last_error, response, returned, raised,
                    events, last_request, slept, failed, uniform, finished >>
    /\ UNCHANGED concurrent

DedupNext == DeduplicatePois

DedupSpec == DedupInit /\ [][DedupNext]_vars

(***************************************************************************)
(* Vocabulary of the properties of deduplicate_pois.                        *)
(***************************************************************************)
DedupReturned == call = "deduplicate_pois" /\ pc = "returned"

\* the deduplication radius in force for a category: the override of the
\* settings when they supply one, else the global default
RadiusInForce(t) ==
    IF t \in DOMAIN args.poi_settings
       /\ args.poi_settings[t].deduplication_radius # -1
    THEN args.poi_settings[t].deduplication_radius
    ELSE args.deduplication_radius

\* the input is two POIs of one category nearer to each other than the radius
NearPair ==
    /\ Len(args.pois) = 2
    /\ args.pois[1].poi_type = args.pois[2].poi_type
    /\ haversine_distance(args.pois[1], args.pois[2])
           < RadiusInForce(args.pois[1].poi_type)

HasBrandOrOperator(p) == p.brand # None \/ p.operator # None
HasReference(p) == p.wikipedia # None \/ p.wikidata # None
HasURL(p) == p.url # None
HasName(p) == p.name # << >>

\* a is preferred to b: the lexicographic order of the six criteria
Preferred(a, b) ==
    LET ha == calculate_opening_hours_duration(a.opening_hours)
        hb == calculate_opening_hours_duration(b.opening_hours)
    IN  \/ a.distance_to_route < b.distance_to_route
        \/ /\ a.distance_to_route = b.distance_to_route
           /\ \/ ha > hb
              \/ /\ ha = hb
                 /\ \/ HasBrandOrOperator(a) /\ ~HasBrandOrOperator(b)
                    \/ /\ HasBrandOrOperator(a) <=> HasBrandOrOperator(b)
                       /\ \/ HasReference(a) /\ ~HasReference(b)
                          \/ /\ HasReference(a) <=> HasReference(b)
                             /\ \/ HasURL(a) /\ ~HasURL(b)
                                \/ /\ HasURL(a) <=> HasURL(b)
                                   /\ HasName(a) /\ ~HasName(b)

(***************************************************************************)
(* C12: of two POIs of one category that lie within the deduplication      *)
(* radius of each other, deduplicate_pois retains exactly one: the one     *)
(* with the smaller distance to the route; if tied, the longer estimated   *)
(* weekly open hours; then a brand or operator; then a wikipedia or        *)
(* wikidata reference; then a URL; then a name.                             *)
(***************************************************************************)
C12_PairKeepsPreferred ==
    (DedupReturned /\ NearPair) =>
        /\ Len(result) = 1
        /\ result[1] \in { args.pois[1], args.pois[2] }
        /\ Preferred(args.pois[1], args.pois[2]) => result[1] = args.pois[1]
        /\ Preferred(args.pois[2], args.pois[1]) => result[1] = args.pois[2]

C14_EveryCategoryDeduplicated ==
    \A t \in Range(POI_TYPES) :
        (DedupReturned /\ NearPair /\ args.pois[1].poi_type = t) =>
            Cardinality(DOMAIN result) = 1

(***************************************************************************)
(* C15: deduplication acts on each category independently: the POIs of a   *)
(* category in the output are exactly what deduplicating the POIs of that  *)
(* category alone yields, so a POI of another category never causes a drop *)
(* and two POIs of different categories within the radius are both kept.   *)
(***************************************************************************)
OfCategory(pois, c) == SelectSeq(pois, LAMBDA p : p.poi_type = c)

C15_CategoriesIndependent ==
    DedupReturned =>
        /\ \A c \in Range(POI_TYPES) :
               OfCategory(result, c)
                   = deduplicate_pois(OfCategory(args.pois, c),
                                      args.deduplication_radius, args.poi_settings)
        /\ \A i, j \in DOMAIN args.pois :
               ( /\ args.pois[i].poi_type # args.pois[j].poi_type
                 /\ Len(OfCategory(args.pois, args.pois[i].poi_type)) = 1
                 /\ Len(OfCategory(args.pois, args.pois[j].poi_type)) = 1 ) =>
                   /\ Occurrences(result, args.pois[i]) = 1
                   /\ Occurrences(result, args.pois[j]) = 1

\* a bakery and a gas station 400 m apart, and a second bakery that the
\* first one suppresses
C15_Witness ==
    /\ DedupReturned
    /\ \E i, j, k \in DOMAIN args.pois :
           /\ args.pois[i].poi_type = "bakeries"
           /\ args.pois[j].poi_type = "gas_stations"
           /\ args.pois[k].poi_type = "bakeries"
           /\ i # k
           /\ haversine_distance(args.pois[i], args.pois[j]) < RadiusInForce("gas_stations")
           /\ haversine_distance(args.pois[i], args.pois[j]) < RadiusInForce("bakeries")
           /\ haversine_distance(args.pois[i], args.pois[k]) < RadiusInForce("bakeries")
    /\ Len(OfCategory(result, "gas_stations")) = 1
    /\ Len(OfCategory(result, "bakeries")) = 1

(***************************************************************************)
(* RouteCalculator called on a route and a point.                           *)
(***************************************************************************)
\* the longest route tried
MaxRouteLen == 3

RouteLons == { 0, 2000, 5000 }

\* every non-empty route over three coordinates, revisits included
PlainRoutes ==
    { r \in SeqsUpTo({ Point(lon) : lon \in RouteLons }, MaxRouteLen) : r # << >> }

\* two routes that run east across the antimeridian
DatelineRoutes ==
    { << Point(HALF_TURN_M - 1000), Point(10000 - HALF_TURN_M) >>,
      << Point(HALF_TURN_M - 5000), Point(HALF_TURN_M - 1000),
         Point(10000 - HALF_TURN_M) >> }

\* the points queried: around the plain routes, around the antimeridian
QueryPoints ==
    { Point(lon) : lon \in { -500, 0, 900, 1000, 2000, 3600, 5000, 6000 } }

DatelineQueryPoints ==
    { Point(lon) : lon \in { HALF_TURN_M - 5000, HALF_TURN_M - 500,
                             500 - HALF_TURN_M, 10000 - HALF_TURN_M } }

\* what the R-tree may do with equidistant points
Orders == { "first", "last" }

RouteArgs ==
    { [ route |-> r, point |-> p ] : r \in PlainRoutes, p \in QueryPoints }
    \cup { [ route |-> r, point |-> p ] :
               r \in DatelineRoutes, p \in DatelineQueryPoints }

RouteInit ==
    /\ call \in { "find_nearest_route_point_index", "calculate_distance_on_route" }
    /\ args \in RouteArgs
    /\ result = None
    /\ routes = NoRoutes
    /\ stored = << >>
    /\ NoConcurrency
    /\ NoQuery

\* one call of find_nearest_route_point_index; the index returned is 0-based
FindNearestRoutePointIndex ==
    /\ call = "find_nearest_route_point_index"
    /\ pc = "start"
    /\ \E order \in Orders :
           result' = find_nearest_route_point_index(args.route, args.point, order) - 1
    /\ pc' = "returned"
    /\ UNCHANGED << call, args, routes, stored >>
    /\ UNCHANGED << selected_poi_types, single_poi_type, max_retries, world,
                    rtree_order, poi_settings, poi_types, index, all_pois,
                    url_index, attempt, last_error, response, returned, raised,
                    events, last_request, slept, failed, uniform, finished >>
    /\ UNCHANGED concurrent

\* one call of calculate_distance_on_route
CalculateDistanceOnRoute ==
    /\ call = "calculate_distance_on_route"
    /\ pc = "start"
    /\ \E order \in Orders :
           result' = calculate_distance_on_route(args.route, args.point, order)
    /\ pc' = "returned"
    /\ UNCHANGED << call, args, routes, stored >>
    /\ UNCHANGED << selected_poi_types, single_poi_type, max_retries, world,
                    rtree_order, poi_settings, poi_types, index, all_pois,
                    url_index, attempt, last_error, response, returned, raised,
                    events, last_request, slept, failed, uniform, finished >>
    /\ UNCHANGED concurrent

RouteNext ==
    \/ FindNearestRoutePointIndex
    \/ CalculateDistanceOnRoute

RouteSpec == RouteInit /\ [][RouteNext]_vars

(***************************************************************************)
(* Vocabulary of the properties of RouteCalculator.                         *)
(***************************************************************************)
\* the route runs one way: every point lies east of the one before it
Monotonic(route) ==
    \A i, j \in DOMAIN route : i < j => route[i].lon < route[j].lon

RECURSIVE LengthOfFirst(_, _)
\* the sum of the great-circle lengths of the first n segments of a route
LengthOfFirst(route, n) ==
    IF n = 0 THEN 0
    ELSE LET d == Abs(route[n + 1].lon - route[n].lon)
         IN  LengthOfFirst(route, n - 1) + Min(d, 2 * HALF_TURN_M - d)

TotalLength(route) == LengthOfFirst(route, Len(route) - 1)

\* the distances calculate_distance_on_route may return for a point
DistancesAlong(route, p) ==
    { calculate_distance_on_route(route, p, order) : order \in Orders }

DistanceReturned == call = "calculate_distance_on_route" /\ pc = "returned"
IndexReturned == call = "find_nearest_route_point_index" /\ pc = "returned"

(***************************************************************************)
(* C18: calculate_distance_on_route returns the sum of the great-circle    *)
(* lengths of the first i segments of the route, i being an index the      *)
(* nearest-point lookup yields for the point; on a monotonic route this is *)
(* 0 for the first point, the total length for the last point, and it does *)
(* not decrease when the queried point moves later along the route.         *)
(***************************************************************************)
C18_DistanceAlongRoute ==
    DistanceReturned =>
        LET route == args.route
            p == args.point
        IN  /\ \E i \in NearestIndices(route, p) : result = LengthOfFirst(route, i - 1)
            /\ Monotonic(route) =>
                   /\ p = route[1] => result = 0
                   /\ p = route[Len(route)] => result = TotalLength(route)
                   /\ TotalLength(route) = route[Len(route)].lon - route[1].lon
                   /\ \A q \in QueryPoints :
                          p.lon < q.lon =>
                              \A later \in DistancesAlong(route, q) : result <= later

\* the last point of a monotonic route of three points was queried
C18_Witness ==
    /\ DistanceReturned
    /\ Monotonic(args.route)
    /\ Len(args.route) = 3
    /\ args.point = args.route[3]
    /\ result = 5000

(***************************************************************************)
(* C19: find_nearest_route_point_index returns a position i in 0..n-1 such *)
(* that no route point is strictly nearer to the query point than          *)
(* points[i]; on a single-point route it returns that point's index, and   *)
(* for a query before the start of a monotonic route the first point.      *)
(***************************************************************************)
C19_NearestIndex ==
    IndexReturned =>
        LET route == args.route
            p == args.point
        IN  /\ result \in 0..(Len(route) - 1)
            /\ \A j \in DOMAIN route :
                   haversine_distance(route[j], p)
                       >= haversine_distance(route[result + 1], p)
            /\ Len(route) = 1 => result = 0
            /\ (Monotonic(route) /\ p.lon < route[1].lon) => result = 0

(***************************************************************************)
(* The filter step of one category: the resolution of the maximum distance *)
(* in query_all_poi_types, then filter_pois.                                *)
(***************************************************************************)
\* the longest list of raw elements tried
MaxElements == 2

\* a route running one way, an out-and-back route that visits its start
\* twice, a single point, and a route across the antimeridian
FilterRoutes ==
    { RoutePoints, << Point(0), Point(2000), Point(0) >>, << Point(1000) >> }

BareElement(type, coords, lon) ==
    Element(type, coords, lon, None, NoHours, None, None, None)

\* every way an element carries or lacks coordinates, and nodes at, within
\* and beyond the distances 500 m and 1000 m from the nearest route point
FilterElements ==
    { BareElement(k[1], k[2], 100) :
        k \in { << "node", "direct" >>, << "node", "none" >>, << "way", "center" >>,
                << "way", "direct" >>, << "way", "none" >>, << "relation", "center" >> } }
    \cup { BareElement("node", "direct", lon) :
              lon \in { 500, 501, 1000, 3001, 6000, 6001 } }
    \cup { Element("node", "direct", 2100, "Shell", MondayToFriday, None, "Shell", None) }

DatelineElements ==
    { BareElement("node", "direct", lon) :
        lon \in { -HALF_TURN_M, 9500 - HALF_TURN_M, HALF_TURN_M - 1500 } }

FilterArgs ==
    { [ route |-> r, elements |-> es, poi_type |-> t,
        max_distance_to_route |-> DEFAULT_MAX_DISTANCE_M, poi_settings |-> st,
        order |-> o ] :
        r \in FilterRoutes, es \in SeqsUpTo(FilterElements, MaxElements),
        t \in { "gas_stations", "bakeries" }, st \in SettingsChoices, o \in Orders }
    \cup
    { [ route |-> r, elements |-> es, poi_type |-> "bakeries",
        max_distance_to_route |-> DEFAULT_MAX_DISTANCE_M, poi_settings |-> NoSettings,
        order |-> "first" ] :
        r \in DatelineRoutes, es \in SeqsUpTo(DatelineElements, MaxElements) }

FilterInit ==
    /\ call = "filter_pois"
    /\ args \in FilterArgs
    /\ result = None
    /\ routes = NoRoutes
    /\ stored = << >>
    /\ NoConcurrency
    /\ NoQuery

\* poi_max_distance is resolved and filter_pois is called; args.order is
\* what the R-tree does with route points equidistant from a candidate, and
\* what it does with equal route points in the second lookup is open
FilterPois ==
    /\ call = "filter_pois"
    /\ pc = "start"
    /\ \E order_on_route \in Orders :
           result' = filter_pois(args.route, args.elements, args.poi_type,
                                 poi_max_distance(args.poi_settings, args.poi_type,
                                                  args.max_distance_to_route),
                                 args.order, order_on_route)
    /\ pc' = "returned"
    /\ UNCHANGED << call, args, routes, stored >>
    /\ UNCHANGED << selected_poi_types, single_poi_type, max_retries, world,
                    rtree_order, poi_settings, poi_types, index, all_pois,
                    url_index, attempt, last_error, response, returned, raised,
                    events, last_request, slept, failed, uniform, finished >>
    /\ UNCHANGED concurrent

FilterNext == FilterPois

FilterSpec == FilterInit /\ [][FilterNext]_vars

(***************************************************************************)
(* Vocabulary of the properties of filter_pois.                             *)
(***************************************************************************)
FilterReturned == call = "filter_pois" /\ pc = "returned"

\* the element has coordinates: a node's lat/lon, a way's center (or, for a
\* way without center, its own lat/lon)
Resolvable(e) ==
    \/ e.type = "node" /\ e.coords = "direct"
    \/ e.type = "way" /\ e.coords \in { "center", "direct" }

\* the maximum distance in force for the category of the call
MaxDistanceInForce ==
    IF args.poi_type \in DOMAIN args.poi_settings
       /\ args.poi_settings[args.poi_type].max_deviation # -1
    THEN args.poi_settings[args.poi_type].max_deviation
    ELSE args.max_distance_to_route

\* the great-circle distance from a point to the nearest point of the route
DistanceToNearest(route, p) ==
    CHOOSE d \in { haversine_distance(route[j], p) : j \in DOMAIN route } :
        \A j \in DOMAIN route : d <= haversine_distance(route[j], p)

Lons(s) == [ i \in DOMAIN s |-> s[i].lon ]

MaxStores == 3

\* the values uuid.uuid4() may draw, as many as needed and one to spare
UUIDs == 1..(MaxStores + 1)

\* the point lists stored: a route, a single point, an empty list
StorablePoints == { RoutePoints, << Point(1000) >>, << >> }

\* idx after n rounds of the loop that fills it: idx.insert(i, ...) for the
\* first n points, i counting from 0; the keys held identify the entries
Inserted(points, n) == { i - 1 : i \in 1..n }

\* Route(points, id, rtree, gpx_data, filename)
Route(points, id, rtree) ==
    [ points |-> points, id |-> id, rtree |-> rtree, gpx_data |-> None,
      filename |-> None ]

StorageInit ==
    /\ call = "RouteStorage"
    /\ args = NoArgs
    /\ result = None
    /\ routes = NoRoutes
    /\ stored = << >>
    /\ NoConcurrency
    /\ NoQuery

\* self._routes[route_id] = Route(...)
Put(route_id, route) ==
    [ id \in DOMAIN routes \cup { route_id } |->
        IF id = route_id THEN route ELSE routes[id] ]

\* mutant: the storage keeps the latest route only
Store_singleSlot(points, route_id) ==
    /\ Len(stored) < MaxStores
    /\ routes' = [ id \in { route_id } |-> Route(points, route_id, Inserted(points, Len(points))) ]
    /\ stored' = Append(stored, [ id |-> route_id, points |-> points ])
    /\ args' = [ points |-> points ]
    /\ result' = route_id

\* RouteStorage.store(points), uuid4 having drawn route_id
Store(points, route_id) ==
    /\ Len(stored) < MaxStores
    /\ routes' = Put(route_id, Route(points, route_id, Inserted(points, Len(points))))
    /\ stored' = Append(stored, [ id |-> route_id, points |-> points ])
    /\ args' = [ points |-> points ]
    /\ result' = route_id

\* a store call; uuid4 draws 122 random bits, and the values it draws are
\* taken to differ from the ones drawn before
StoreRoute ==
    /\ call = "RouteStorage"
    /\ \E points \in StorablePoints :
       \E route_id \in UUIDs \ { stored[k].id : k \in DOMAIN stored } :
           Store(points, route_id)
    /\ UNCHANGED << call, pc >>
    /\ UNCHANGED << selected_poi_types, single_poi_type, max_retries, world,
                    rtree_order, poi_settings, poi_types, index, all_pois,
                    url_index, attempt, last_error, response, returned, raised,
                    events, last_request, slept, failed, uniform, finished >>
    /\ UNCHANGED concurrent

\* RouteStorage.get(route_id): self._routes.get(route_id)
Get(route_id) ==
    /\ result' = IF route_id \in DOMAIN routes THEN routes[route_id] ELSE None
    /\ args' = [ route_id |-> route_id ]
    /\ UNCHANGED << routes, stored >>

GetRoute ==
    /\ call = "RouteStorage"
    /\ \E route_id \in UUIDs : Get(route_id)
    /\ UNCHANGED << call, pc >>
    /\ UNCHANGED << selected_poi_types, single_poi_type, max_retries, world,
                    rtree_order, poi_settings, poi_types, index, all_pois,
                    url_index, attempt, last_error, response, returned, raised,
                    events, last_request, slept, failed, uniform, finished >>
    /\ UNCHANGED concurrent

StorageNext ==
    \/ StoreRoute
    \/ GetRoute

StorageSpec == StorageInit /\ [][StorageNext]_vars

(***************************************************************************)
(* C20: after any sequence of store calls the ids returned are pairwise    *)
(* distinct, get(id) returns a Route with that id and with the stored      *)
(* points in the same order, get of an id that store never returned        *)
(* returns None, and a later store neither changes nor removes an earlier  *)
(* entry.                                                                    *)
(***************************************************************************)
GetReturned == call = "RouteStorage" /\ args # NoArgs /\ "route_id" \in DOMAIN args

C20_StoredRoutesKept ==
    call = "RouteStorage" =>
        /\ \A k, l \in DOMAIN stored : k # l => stored[k].id # stored[l].id
        \* what get would return now for every id returned so far
        /\ \A k \in DOMAIN stored :
               /\ stored[k].id \in DOMAIN routes
               /\ routes[stored[k].id].id = stored[k].id
               /\ routes[stored[k].id].points = stored[k].points
        /\ DOMAIN routes = { stored[k].id : k \in DOMAIN stored }
        \* what the last get did return
        /\ GetReturned =>
               IF \E k \in DOMAIN stored : stored[k].id = args.route_id
               THEN \E k \in DOMAIN stored :
                        /\ stored[k].id = args.route_id
                        /\ result.id = args.route_id
                        /\ result.points = stored[k].points
               ELSE result = None

\* three routes stored, and the first one read back after the third store
C20_Witness ==
    /\ call = "RouteStorage"
    /\ Len(stored) = 3
    /\ GetReturned
    /\ args.route_id = stored[1].id
    /\ result.points = RoutePoints
    /\ stored[3].points # RoutePoints

(***************************************************************************)
(* RouteStorage called by several threads at once.  A step is what one     *)
(* thread does between two points where another thread may run: drawing    *)
(* the id, one round of the loop that fills the index, taking the lock,    *)
(* the statement under the lock, leaving the with block.                    *)
(***************************************************************************)
\* the threads calling store and get, each of them serving one request
NumThreads == 3

Threads == 1..NumThreads

\* the values uuid.uuid4() draws, named in the order in which they are
\* drawn: one for every store call and one to spare
SharedUUIDs == 1..(NumThreads + 1)

\* the point lists stored by the threads
SharedPoints == { << Point(0), Point(2000) >>, << Point(1000) >> }

\* the arguments of the queries and their locals, which no other entry
\* point touches
arguments ==
    << call, selected_poi_types, single_poi_type, max_retries, world, rtree_order,
       poi_settings >>

locals ==
    << pc, poi_types, index, all_pois, url_index, attempt, last_error, response,
       returned, raised, events, last_request, slept, failed, uniform, finished >>

\* a thread: the method it runs (op), where it is in it (pc), the argument
\* points of store, route_id (the local of store, the argument of get), the
\* rounds n of the loop over points done (idx is Inserted(points, n)), the
\* value it returned, and (history) whether the dictionary held route_id
\* when get read it
Thread(op, at, points, route_id, n, value) ==
    [ op |-> op, pc |-> at, points |-> points, route_id |-> route_id, n |-> n,
      value |-> value, found |-> FALSE ]

SharedStorageInit ==
    /\ call = "RouteStorage"
    /\ args = NoArgs
    /\ result = None
    /\ routes = NoRoutes
    /\ stored = << >>
    /\ threads = [ t \in Threads |-> Thread(None, "idle", << >>, None, 0, None) ]
    /\ lock = Unlocked
    /\ stream_pc = None
    /\ got = NothingTaken
    /\ stream = << >>
    /\ NoQuery

\* what a step of a thread leaves alone
ThreadFrame == UNCHANGED << arguments, locals, args, result, stream_pc, got, stream >>

Becomes(t, thread) == threads' = [ threads EXCEPT ![t] = thread ]

\* the ids drawn so far, by the store calls that returned and by the ones running
Drawn ==
    { stored[k].id : k \in DOMAIN stored }
    \cup { threads[t].route_id : t \in { u \in Threads : threads[u].op = "store" } }

\* a thread calls store(points): route_id = str(uuid.uuid4()), a value not
\* drawn before, and idx = index.Index()
CallStore(t) ==
    /\ call = "RouteStorage"
    /\ threads[t].pc = "idle"
    /\ \E points \in SharedPoints :
           Becomes(t, Thread("store", "insert", points, Cardinality(Drawn) + 1, 0, None))
    /\ UNCHANGED << routes, stored, lock >>
    /\ ThreadFrame

\* mutant: the loop over the points ends after its first round
LoopDone_afterFirstPoint(t) ==
    threads[t].n >= Min(1, Len(threads[t].points))

\* for i, point in enumerate(points): the loop is exhausted
LoopDone(t) ==
    threads[t].n = Len(threads[t].points)

\* idx.insert(i, (point.lon, point.lat, point.lon, point.lat))
Insert(t) ==
    /\ threads[t].op = "store"
    /\ threads[t].pc = "insert"
    /\ ~LoopDone(t)
    /\ Becomes(t, [ threads[t] EXCEPT !.n = @ + 1 ])
    /\ UNCHANGED << routes, stored, lock >>
    /\ ThreadFrame

\* a thread calls get(route_id) and reaches "with self._lock"
CallGet(t) ==
    /\ call = "RouteStorage"
    /\ threads[t].pc = "idle"
    /\ \E route_id \in SharedUUIDs :
           Becomes(t, Thread("get", "acquire", << >>, route_id, 0, None))
    /\ UNCHANGED << routes, stored, lock >>
    /\ ThreadFrame

\* with self._lock: entered when no thread holds the lock, by a store whose
\* loop has ended or by a get
Acquire(t) ==
    /\ \/ threads[t].pc = "acquire"
       \/ threads[t].pc = "insert" /\ LoopDone(t)
    /\ lock = Unlocked
    /\ lock' = t
    /\ Becomes(t, [ threads[t] EXCEPT !.pc = "locked" ])
    /\ UNCHANGED << routes, stored >>
    /\ ThreadFrame

\* self._routes[route_id] = Route(points=points, id=route_id, rtree=idx, ...)
PutRoute(t) ==
    /\ threads[t].op = "store"
    /\ threads[t].pc = "locked"
    /\ routes' = Put(threads[t].route_id,
                     Route(threads[t].points, threads[t].route_id,
                           Inserted(threads[t].points, threads[t].n)))
    /\ stored' = Append(stored, [ id |-> threads[t].route_id,
                                  points |-> threads[t].points ])
    /\ Becomes(t, [ threads[t] EXCEPT !.pc = "unlock", !.value = threads[t].route_id ])
    /\ UNCHANGED lock
    /\ ThreadFrame

\* self._routes.get(route_id), evaluated under the lock
ReadRoute(t) ==
    /\ threads[t].op = "get"
    /\ threads[t].pc = "locked"
    /\ Becomes(t, [ threads[t] EXCEPT
                      !.pc = "unlock",
                      !.found = threads[t].route_id \in DOMAIN routes,
                      !.value = IF threads[t].route_id \in DOMAIN routes
                                THEN routes[threads[t].route_id] ELSE None ])
    /\ UNCHANGED << routes, stored, lock >>
    /\ ThreadFrame

\* the with block is left and the method returns
Release(t) ==
    /\ threads[t].pc = "unlock"
    /\ lock = t
    /\ lock' = Unlocked
    /\ Becomes(t, [ threads[t] EXCEPT !.pc = "returned" ])
    /\ UNCHANGED << routes, stored >>
    /\ ThreadFrame

SharedStorageNext ==
    \/ \E t \in Threads : CallStore(t)
    \/ \E t \in Threads : Insert(t)
    \/ \E t \in Threads : CallGet(t)
    \/ \E t \in Threads : Acquire(t)
    \/ \E t \in Threads : PutRoute(t)
    \/ \E t \in Threads : ReadRoute(t)
    \/ \E t \in Threads : Release(t)

SharedStorageSpec == SharedStorageInit /\ [][SharedStorageNext]_vars

(***************************************************************************)
(* C21: under any interleaving of concurrent store and get calls no stored *)
(* route is lost or overwritten, and a get returns either None or a fully  *)
(* constructed Route whose index holds a key for every one of its points:  *)
(* an entry that is only partly built is never in the storage and never    *)
(* returned.                                                                *)
(***************************************************************************)
\* a Route whose index holds a key for every one of its points
FullyIndexed(route) == route.rtree = Inserted(route.points, Len(route.points))

\* the threads whose get has read its value
GetDone(t) == threads[t].op = "get" /\ threads[t].pc \in { "unlock", "returned" }

C21_ConcurrentStoreGetSafe ==
    call = "RouteStorage" /\ threads # << >> =>
        /\ \A k, l \in DOMAIN stored : k # l => stored[k].id # stored[l].id
        /\ DOMAIN routes = { stored[k].id : k \in DOMAIN stored }
        /\ \A k \in DOMAIN stored :
               /\ routes[stored[k].id].id = stored[k].id
               /\ routes[stored[k].id].points = stored[k].points
               /\ FullyIndexed(routes[stored[k].id])
        /\ \A t \in Threads :
               GetDone(t) /\ threads[t].found =>
                   /\ FullyIndexed(threads[t].value)
                   /\ threads[t].value.id = threads[t].route_id
                   /\ \E k \in DOMAIN stored :
                          /\ stored[k].id = threads[t].route_id
                          /\ stored[k].points = threads[t].value.points

\* a get returned a stored route of two points while another thread's store
\* had filled its index for one of its two points only
C21_Witness ==
    /\ call = "RouteStorage" /\ threads # << >>
    /\ \E t, u \in Threads :
           /\ GetDone(t)
           /\ threads[t].pc = "returned"
           /\ threads[t].found
           /\ Len(threads[t].value.points) = 2
           /\ threads[u].op = "store"
           /\ threads[u].pc = "insert"
           /\ threads[u].n = 1
           /\ Len(threads[u].points) = 2

(***************************************************************************)
(* main.py, generate_poi_stream: the generator submits query_all_poi_types *)
(* to a worker thread, whose callbacks put their items on progress_queue   *)
(* and batch_queue, and forwards the items it finds on the queues while    *)
(* the worker runs.  The worker's steps are the steps of the query; a step *)
(* of the generator is what it does from one poll or yield to the next.    *)
(***************************************************************************)
\* the selections of the requests streamed
StreamSelections ==
    { [ given |-> TRUE, types |-> << "gas_stations" >> ],
      [ given |-> TRUE, types |-> << "gas_stations", "bicycle_vending" >> ],
      [ given |-> TRUE, types |-> << "unknown_type" >> ] }

\* the route uploaded before the request, under the first id drawn, and the
\* ids a request may name
StreamRoutes == [ id \in { 1 } |-> Route(RoutePoints, id, Inserted(RoutePoints, Len(RoutePoints))) ]
StreamRouteIds == { 1, 2 }

\* the items the callbacks have put on a queue, in the order of the puts
Put_items(e) == SelectSeq(events, LAMBDA ev : ev.e = e)

\* queue.Queue(): the items put and not yet taken
progress_queue ==
    SubSeq(Put_items("progress"), got.progress + 1, Len(Put_items("progress")))
batch_queue ==
    SubSeq(Put_items("batch"), got.batch + 1, Len(Put_items("batch")))

\* future.done()
future_done == pc \in { "returned", "raised" }

\* the final event, and the error events of the except clauses
CompleteEvent(pois) == [ e |-> "complete", pois |-> pois ]
ErrorEvent(error) == [ e |-> "error", error |-> error ]
\* {'error': 'Route not found'} carries no type
RouteNotFound == [ e |-> None, error |-> "route_not_found" ]

StreamInit ==
    /\ call = "query_all_poi_types"
    /\ selected_poi_types \in StreamSelections
    /\ single_poi_type = None
    /\ max_retries = DEFAULT_MAX_RETRIES
    /\ world = "sparse"
    /\ rtree_order = "first"
    /\ poi_settings = NoSettings
    /\ NothingDone
    /\ args \in { [ route_id |-> id ] : id \in StreamRouteIds }
    /\ result = None
    /\ routes = StreamRoutes
    /\ stored = << >>
    /\ threads = << >>
    /\ lock = Unlocked
    /\ stream_pc = "start"
    /\ got = NothingTaken
    /\ stream = << >>

\* what a step of the generator leaves alone: the worker and the storage
GeneratorFrame ==
    UNCHANGED << arguments, locals, args, result, routes, stored, threads, lock >>

\* route = route_storage.get(route_id); without a route one error event and
\* the end, else the bounding box, the queues and executor.submit(run_query)
StartStream ==
    /\ stream_pc = "start"
    /\ IF args.route_id \in DOMAIN routes
       THEN /\ stream_pc' = "while"
            /\ stream' = stream
       ELSE /\ stream_pc' = "done"
            /\ stream' = Append(stream, RouteNotFound)
    /\ UNCHANGED got
    /\ GeneratorFrame

\* run_query starts in the worker thread once it is submitted
run_query ==
    /\ stream_pc \notin { None, "start", "done" }
    /\ query_all_poi_types

\* while not future.done()
WhileNotDone ==
    /\ stream_pc = "while"
    /\ stream_pc' = IF future_done THEN "result" ELSE "batch_get"
    /\ UNCHANGED << got, stream >>
    /\ GeneratorFrame

\* batch = batch_queue.get(timeout=0.1) and the yield, or queue.Empty
BatchGet ==
    /\ stream_pc = "batch_get"
    /\ IF batch_queue # << >>
       THEN /\ stream' = Append(stream, Head(batch_queue))
            /\ got' = [ got EXCEPT !.batch = @ + 1 ]
            /\ stream_pc' = "while"
       ELSE /\ stream_pc' = "progress_get"
            /\ UNCHANGED << got, stream >>
    /\ GeneratorFrame

\* progress = progress_queue.get(timeout=0.05) and the yield, or queue.Empty
\* and await asyncio.sleep(0.05)
ProgressGet ==
    /\ stream_pc = "progress_get"
    /\ IF progress_queue # << >>
       THEN /\ stream' = Append(stream, Head(progress_queue))
            /\ got' = [ got EXCEPT !.progress = @ + 1 ]
       ELSE UNCHANGED << got, stream >>
    /\ stream_pc' = "while"
    /\ GeneratorFrame

\* filtered_pois = future.result(): the list returned, or the exception of
\* the worker raised again and caught by the except clauses
FutureResult ==
    /\ stream_pc = "result"
    /\ IF pc = "raised"
       THEN /\ stream' = Append(stream,
                                ErrorEvent(CASE raised.cls = "TimeoutError" -> "timed_out"
                                             [] raised.cls = "ConnectionError" -> "unavailable"
                                             [] OTHER -> "failed"))
            /\ stream_pc' = "done"
       ELSE /\ stream' = stream
            /\ stream_pc' = "drain_batch"
    /\ UNCHANGED got
    /\ GeneratorFrame

\* mutant: the progress updates left on their queue are not yielded
DrainBatches_thenComplete ==
    /\ stream_pc = "drain_batch"
    /\ IF batch_queue # << >>
       THEN /\ stream' = Append(stream, Head(batch_queue))
            /\ got' = [ got EXCEPT !.batch = @ + 1 ]
            /\ stream_pc' = "drain_batch"
       ELSE /\ stream_pc' = "complete"
            /\ UNCHANGED << got, stream >>
    /\ GeneratorFrame

\* while not batch_queue.empty(): yield batch_queue.get_nowait()
DrainBatches ==
    /\ stream_pc = "drain_batch"
    /\ IF batch_queue # << >>
       THEN /\ stream' = Append(stream, Head(batch_queue))
            /\ got' = [ got EXCEPT !.batch = @ + 1 ]
            /\ stream_pc' = "drain_batch"
       ELSE /\ stream_pc' = "drain_progress"
            /\ UNCHANGED << got, stream >>
    /\ GeneratorFrame

\* while not progress_queue.empty(): yield progress_queue.get_nowait()
DrainProgress ==
    /\ stream_pc = "drain_progress"
    /\ IF progress_queue # << >>
       THEN /\ stream' = Append(stream, Head(progress_queue))
            /\ got' = [ got EXCEPT !.progress = @ + 1 ]
            /\ stream_pc' = "drain_progress"
       ELSE /\ stream_pc' = "complete"
            /\ UNCHANGED << got, stream >>
    /\ GeneratorFrame

\* the final result is yielded and the generator ends
YieldComplete ==
    /\ stream_pc = "complete"
    /\ stream' = Append(stream, CompleteEvent(returned))
    /\ stream_pc' = "done"
    /\ UNCHANGED got
    /\ GeneratorFrame

\* the steps of the worker thread
WorkerNext ==
    \/ run_query
    \/ OnResponse
    \/ OnTimeout
    \/ OnHTTPError
    \/ OnJSONDecodeError
    \/ OnConnectionError
    \/ OnRequestException

\* the steps of the generator
GeneratorNext ==
    \/ StartStream
    \/ WhileNotDone
    \/ BatchGet
    \/ ProgressGet
    \/ FutureResult
    \/ DrainBatches
    \/ DrainProgress
    \/ YieldComplete

StreamNext ==
    \/ WorkerNext
    \/ GeneratorNext

StreamSpec == StreamInit /\ [][StreamNext]_vars

\* every request is answered or times out, and the consumer keeps reading
StreamLiveSpec ==
    StreamSpec /\ WF_vars(WorkerNext) /\ WF_vars(GeneratorNext)

(***************************************************************************)
(* Vocabulary of the properties of the event stream.                        *)
(***************************************************************************)
\* the positions in the stream of the events of kind e for the category at
\* position i of the selection
StreamAt(e, i) ==
    { k \in DOMAIN stream : stream[k].e = e /\ stream[k].current = i }

\* a request for a route that is stored, with a selection of known categories
ValidRequest ==
    /\ stream_pc # None
    /\ args.route_id \in DOMAIN routes
    /\ ~SelectionHasUnknown

\* the events of the stream but the last one
Forwarded == SubSeq(stream, 1, Len(stream) - 1)

(***************************************************************************)
(* C22: the stream carries the events in the order in which the worker     *)
(* produced them, under every interleaving of worker and generator: the    *)
(* batch event of a category comes after the progress event of that        *)
(* category, and the progress event of the category at position i+1 comes  *)
(* after the batch event that the worker produced for position i.          *)
(***************************************************************************)
C22_StreamInWorkerOrder ==
    stream_pc # None =>
        \A i \in DOMAIN poi_types :
            /\ \A b \in StreamAt("batch", i) :
                   \E p \in StreamAt("progress", i) : p < b
            /\ \A p \in StreamAt("progress", i + 1) :
                   EventsAt("batch", i) # {} =>
                       \E b \in StreamAt("batch", i) : b < p

(***************************************************************************)
(* C23: remote failures in any or all categories of a valid selection are  *)
(* never fatal: the stream for a stored route carries no error event, the  *)
(* worker raises nothing, and the stream ends with the complete event,     *)
(* whose POI list is empty when every category failed.                      *)
(***************************************************************************)
C23_RemoteFailuresNotFatal ==
    ValidRequest =>
        /\ pc # "raised"
        /\ \A k \in DOMAIN stream : stream[k].e # "error"
        /\ stream_pc = "done" =>
               /\ stream # << >>
               /\ stream[Len(stream)].e = "complete"
               /\ failed = Len(poi_types) => stream[Len(stream)].pois = << >>

\* the stream has ended after both categories of the selection failed, the
\* second one on a request that timed out
C23_Witness ==
    /\ ValidRequest
    /\ stream_pc = "done"
    /\ Len(poi_types) = 2
    /\ finished = << "failed", "failed" >>
    /\ last_request.outcome = "timeout"
    /\ stream[Len(stream)] = CompleteEvent(<< >>)

(***************************************************************************)
(* C27: for a stored route and a valid selection, the consumer reading on, *)
(* the stream eventually ends with one complete event, which is its last   *)
(* event, every progress event and every batch event that the worker       *)
(* produced having been yielded exactly once before it.                    *)
(***************************************************************************)
StreamEnded ==
    /\ stream_pc = "done"
    /\ future_done
    /\ stream # << >>
    /\ stream[Len(stream)].e = "complete"
    /\ \A k \in DOMAIN Forwarded : Forwarded[k].e \in { "progress", "batch" }
    /\ SameMultiset(Forwarded, Put_items("progress") \o Put_items("batch"))

C27_StreamCompletes ==
    (stream_pc = "start" /\ ValidRequest) ~> [](StreamEnded)

\* the stream of a selection of two categories has ended with five events
C27_Witness ==
    /\ ValidRequest
    /\ StreamEnded
    /\ Len(stream) = 5
    /\ Len(Put_items("progress")) = 2
    /\ Len(Put_items("batch")) = 2

(***************************************************************************)
(* calculate_opening_hours_duration called on an opening-hours string.     *)
(***************************************************************************)
\* the most semicolon-separated clauses of a string tried
MaxClauses == 2

\* the clauses the strings are made of: office hours, a weekend, a night
\* span over a week wrap, a long day over the whole week, an unknown day
\* token, an end time past 24:00, the whole week written as a range, a
\* 24/7 phrase, other text
HoursClauses ==
    { RangeClause("mo", "fr", 9, 0, 17, 0),
      RangeClause("sa", "su", 10, 0, 14, 30),
      RangeClause("fr", "mo", 22, 0, 2, 0),
      RangeClause("mo", "su", 6, 0, 5, 0),
      RangeClause("xx", "fr", 9, 0, 17, 0),
      RangeClause("mo", "su", 0, 0, 30, 0),
      RangeClause("mo", "su", 0, 0, 24, 0),
      AlwaysClause,
      TextClause }

\* strings of different clauses
HoursArgs ==
    { [ opening_hours |-> oh ] :
        oh \in { q \in SeqsUpTo(HoursClauses, MaxClauses) :
                    \A i, j \in DOMAIN q : i # j => q[i] # q[j] } }

HoursInit ==
    /\ call = "calculate_opening_hours_duration"
    /\ args \in HoursArgs
    /\ result = None
    /\ routes = NoRoutes
    /\ stored = << >>
    /\ NoConcurrency
    /\ NoQuery

\* one call of calculate_opening_hours_duration
CalculateOpeningHoursDuration ==
    /\ call = "calculate_opening_hours_duration"
    /\ pc = "start"
    /\ result' = calculate_opening_hours_duration(args.opening_hours)
    /\ pc' = "returned"
    /\ UNCHANGED << arguments, args, routes, stored, concurrent >>
    /\ UNCHANGED << poi_types, index, all_pois, url_index, attempt, last_error,
                    response, returned, raised, events, last_request, slept,
                    failed, uniform, finished >>

HoursNext == CalculateOpeningHoursDuration

HoursSpec == HoursInit /\ [][HoursNext]_vars

(***************************************************************************)
(* C24: for every opening-hours string the estimated weekly duration is    *)
(* the smaller of 168 hours and the sum, over all its parseable clauses of *)
(* a day range and a time range, of the days in the range times the hours  *)
(* per day (an end time before the start time wrapping past midnight); it  *)
(* is 168 hours for a 24/7 phrasing and 0 when nothing parses, so it lies  *)
(* between 0 and 168 hours.  Durations are in minutes.                      *)
(***************************************************************************)
DurationReturned == call = "calculate_opening_hours_duration" /\ pc = "returned"

Parseable(c) == c.kind = "range" /\ ValidDays(c)

RECURSIVE TotalOfClauses(_)
TotalOfClauses(clauses) ==
    IF clauses = << >> THEN 0
    ELSE (IF Parseable(Head(clauses)) THEN ClauseMinutes(Head(clauses)) ELSE 0)
         + TotalOfClauses(Tail(clauses))

C24_WeeklyDuration ==
    DurationReturned =>
        /\ result >= 0 /\ result <= WEEK_MINUTES
        /\ result = IF is_24_7(args.opening_hours)
                    THEN WEEK_MINUTES
                    ELSE Min(WEEK_MINUTES, TotalOfClauses(args.opening_hours))

(***************************************************************************)
(* get_route_bounding_box called on a route.  Latitudes and longitudes are *)
(* degrees written as arc length in metres (METRES_PER_DEGREE to the       *)
(* degree), the buffer is in metres.                                        *)
(***************************************************************************)
\* a degree of arc in metres: HALF_TURN_M / 180
METRES_PER_DEGREE == 111195
\* conversion_factor = 111.0, kilometres to the degree
CONVERSION_FACTOR == 111

\* buffer_deg = buffer_km / conversion_factor, rounded down to the metre
buffer_deg(buffer_m) ==
    (buffer_m * METRES_PER_DEGREE) \div (CONVERSION_FACTOR * 1000)

\* min(...) and max(...) over the points of the route
MinOf(S) == CHOOSE x \in S : \A y \in S : x <= y
MaxOf(S) == CHOOSE x \in S : \A y \in S : x >= y

\* mutant: the buffer widens the box in latitude only
get_route_bounding_box_latitudeOnly(points, buffer_m) ==
    IF points = << >> THEN Error("ValueError", "empty_sequence")
    ELSE [ south |-> MinOf({ points[i].lat : i \in DOMAIN points }) - buffer_deg(buffer_m),
           north |-> MaxOf({ points[i].lat : i \in DOMAIN points }) + buffer_deg(buffer_m),
           west |-> MinOf({ points[i].lon : i \in DOMAIN points }),
           east |-> MaxOf({ points[i].lon : i \in DOMAIN points }) ]

\* OverpassClient.get_route_bounding_box; min() of an empty route raises
get_route_bounding_box(points, buffer_m) ==
    IF points = << >> THEN Error("ValueError", "empty_sequence")
    ELSE [ south |-> MinOf({ points[i].lat : i \in DOMAIN points }) - buffer_deg(buffer_m),
           north |-> MaxOf({ points[i].lat : i \in DOMAIN points }) + buffer_deg(buffer_m),
           west |-> MinOf({ points[i].lon : i \in DOMAIN points }) - buffer_deg(buffer_m),
           east |-> MaxOf({ points[i].lon : i \in DOMAIN points }) + buffer_deg(buffer_m) ]

\* RoutePoint(lat, lon)
RoutePoint(lat, lon) == [ lat |-> lat, lon |-> lon ]

\* the points the routes are made of, north and south of the equator and
\* east and west of the prime meridian
BoxPoints ==
    { RoutePoint(lat, lon) : lat \in { -500, 0, 800 }, lon \in { -2000, 3000 } }

\* the buffers: none, the default of one kilometre, five kilometres
Buffers == { 0, 1000, 5000 }

BoxArgs ==
    { [ points |-> ps, buffer |-> b ] :
        ps \in SeqsUpTo(BoxPoints, MaxRouteLen), b \in Buffers }

BoxInit ==
    /\ call = "get_route_bounding_box"
    /\ args \in BoxArgs
    /\ result = None
    /\ routes = NoRoutes
    /\ stored = << >>
    /\ NoConcurrency
    /\ NoQuery

\* one call of get_route_bounding_box
GetRouteBoundingBox ==
    /\ call = "get_route_bounding_box"
    /\ pc = "start"
    /\ result' = get_route_bounding_box(args.points, args.buffer)
    /\ pc' = IF args.points = << >> THEN "raised" ELSE "returned"
    /\ UNCHANGED << arguments, args, routes, stored, concurrent >>
    /\ UNCHANGED << poi_types, index, all_pois, url_index, attempt, last_error,
                    response, returned, raised, events, last_request, slept,
                    failed, uniform, finished >>

BoxNext == GetRouteBoundingBox

BoxSpec == BoxInit /\ [][BoxNext]_vars

(***************************************************************************)
(* C25: the bounding box of a route is its extent in latitude and          *)
(* longitude widened on every side by the buffer divided by 111 km to the  *)
(* degree: with no buffer it is exactly the extent, and for every buffer   *)
(* that is not negative it contains every point of the route, with south   *)
(* not above north and west not beyond east.                                *)
(***************************************************************************)
BoxReturned == call = "get_route_bounding_box" /\ pc = "returned"

\* the buffer in degrees, as arc length
BufferArc == (args.buffer * METRES_PER_DEGREE) \div 111000

\* v is the least (the greatest) of the values
LeastOf(v, values) == v \in values /\ \A w \in values : v <= w
GreatestOf(v, values) == v \in values /\ \A w \in values : v >= w

Lats == { args.points[i].lat : i \in DOMAIN args.points }
Longs == { args.points[i].lon : i \in DOMAIN args.points }

C25_BoundingBox ==
    BoxReturned =>
        /\ LeastOf(result.south + BufferArc, Lats)
        /\ GreatestOf(result.north - BufferArc, Lats)
        /\ LeastOf(result.west + BufferArc, Longs)
        /\ GreatestOf(result.east - BufferArc, Longs)
        /\ args.buffer = 0 =>
               /\ LeastOf(result.south, Lats) /\ GreatestOf(result.north, Lats)
               /\ LeastOf(result.west, Longs) /\ GreatestOf(result.east, Longs)
        /\ args.buffer >= 0 =>
               /\ result.south <= result.north
               /\ result.west <= result.east
               /\ \A i \in DOMAIN args.points :
                      /\ result.south <= args.points[i].lat
                      /\ args.points[i].lat <= result.north
                      /\ result.west <= args.points[i].lon
                      /\ args.points[i].lon <= result.east

\* the box of a route of three points that differ in latitude and in
\* longitude, with the default buffer
C25_Witness ==
    /\ BoxReturned
    /\ args.buffer = 1000
    /\ Len(args.points) = 3
    /\ Cardinality(Lats) = 3
    /\ Cardinality(Longs) = 2
    /\ result.south < -500
    /\ result.east > 3000

(***************************************************************************)
(* query_poi_type called directly, every request being answered or         *)
(* failing in the end (requests.post is given a timeout).                   *)
(***************************************************************************)
RetryInit == Init /\ call = "query_poi_type"

RetryNext ==
    \/ query_poi_type
    \/ OnResponse
    \/ OnTimeout
    \/ OnHTTPError
    \/ OnJSONDecodeError
    \/ OnConnectionError
    \/ OnRequestException

RetrySpec == RetryInit /\ [][RetryNext]_vars /\ WF_vars(RetryNext)

(***************************************************************************)
(* C26: for every max_retries >= 0 and every sequence of remote outcomes   *)
(* query_poi_type terminates.  Every request is the attempt of a number    *)
(* below max_retries on an endpoint of the list, and the next request is   *)
(* either the next attempt on the same endpoint or the first attempt on    *)
(* the next endpoint of the list, so each endpoint receives at most        *)
(* max_retries requests and no earlier endpoint is visited again.  The     *)
(* call ends by returning a response or by raising an error, which is the  *)
(* generic connection error when no request was made.                      *)
(***************************************************************************)
\* the call is about to send the request of (url_index, attempt)
Sending == call = "query_poi_type" /\ pc = "query"

RequestWithinBounds ==
    Sending =>
        /\ url_index \in DOMAIN overpass_urls
        /\ attempt >= 0 /\ attempt < max_retries

NextRequestLater ==
    Sending /\ pc' = "query" =>
        \/ url_index' = url_index /\ attempt' = attempt + 1
        \/ url_index' = url_index + 1 /\ attempt' = 0

EndsWithResponseOrError ==
    /\ call = "query_poi_type" /\ pc = "returned" =>
           /\ last_request.outcome = "ok"
           /\ response = last_request.body
    /\ call = "query_poi_type" /\ pc = "raised" =>
           /\ raised # NoError
           /\ (last_request = NoRequest /\ single_poi_type \in POI_TYPE_CONFIG) =>
                  max_retries = 0 /\ raised = ErrAllFailed

C26_RetriesBoundedAndTerminate ==
    /\ [](RequestWithinBounds /\ EndsWithResponseOrError)
    /\ [][NextRequestLater]_vars
    /\ <>(call = "query_poi_type" /\ pc \in { "returned", "raised" })

\* the call raised after three attempts on each of the endpoints, all
\* of which timed out
C26_Witness ==
    /\ call = "query_poi_type"
    /\ pc = "raised"
    /\ max_retries = 3
    /\ last_request.url = Len(overpass_urls)
    /\ last_request.attempt = 2
    /\ uniform = "timeout"
    /\ raised = ErrTimeout

(***************************************************************************)
(* C28: deduplicate_pois only removes.  Its output is a sub-multiset of    *)
(* its input with no POI modified; for every category of the input a POI   *)
(* to which no POI of the category is preferred is retained; and every     *)
(* dropped POI lies within the radius of its category of a retained POI of *)
(* the same category that it is not preferred to.                           *)
(***************************************************************************)
\* how many copies of the POI p the call dropped
Dropped(p) == Occurrences(args.pois, p) - Occurrences(result, p)

C28_OnlyRemoves ==
    DedupReturned =>
        /\ \A k \in DOMAIN result : Dropped(result[k]) >= 0
        /\ \A i \in DOMAIN args.pois :
               \E k \in DOMAIN result :
                   /\ result[k].poi_type = args.pois[i].poi_type
                   /\ \A j \in DOMAIN args.pois :
                          args.pois[j].poi_type = result[k].poi_type =>
                              ~Preferred(args.pois[j], result[k])
        /\ \A i \in DOMAIN args.pois :
               Dropped(args.pois[i]) > 0 =>
                   \E k \in DOMAIN result :
                       /\ result[k].poi_type = args.pois[i].poi_type
                       /\ haversine_distance(args.pois[i], result[k])
                              < RadiusInForce(args.pois[i].poi_type)
                       /\ ~Preferred(args.pois[i], result[k])

\* of three POIs of one category the first in the list, which is the least
\* preferred, was dropped and the two others, a kilometre apart, were kept
C28_Witness ==
    /\ DedupReturned
    /\ Len(args.pois) = 3
    /\ Len(result) = 2
    /\ \A i \in DOMAIN args.pois : args.pois[i].poi_type = "gas_stations"
    /\ Dropped(args.pois[1]) = 1
    /\ Preferred(args.pois[2], args.pois[1])
    /\ haversine_distance(result[1], result[2]) = 1000

(***************************************************************************)
(* C29: deduplicate_pois is idempotent: applied to its own output, with    *)
(* the same radius and the same settings, it retains exactly the POIs of   *)
(* that output.                                                              *)
(***************************************************************************)
C29_Idempotent ==
    DedupReturned =>
        SameMultiset(deduplicate_pois(result, args.deduplication_radius,
                                      args.poi_settings),
                     result)

\* the first call dropped the POI in the middle of three of one category,
\* and the two it kept, at the two ends, are kept by the second call
C29_Witness ==
    /\ DedupReturned
    /\ Len(args.pois) = 3
    /\ \A i \in DOMAIN args.pois : args.pois[i].poi_type = "bakeries"
    /\ { args.pois[i].lon : i \in DOMAIN args.pois } = { 0, 400, 1000 }
    /\ Len(result) = 2
    /\ { result[k].lon : k \in DOMAIN result } = { 0, 1000 }
    /\ Len(deduplicate_pois(result, args.deduplication_radius, args.poi_settings)) = 2

(***************************************************************************)
(* C30: a selection that is given but empty is treated by                  *)
(* query_all_poi_types like no selection: the ten categories of the        *)
(* configuration are queried and reported in its order, each with a total  *)
(* of ten, and the call returns after the tenth.                            *)
(***************************************************************************)
\* the caller names no category: no selection, or an empty one
NoCategoryNamed ==
    /\ call = "query_all_poi_types"
    /\ stream_pc = None
    /\ selected_poi_types.types = << >>

C30_EmptySelectionMeansAll ==
    NoCategoryNamed =>
        /\ pc # "raised"
        /\ pc # "start" => poi_types = POI_TYPES
        /\ \A k \in DOMAIN events :
               events[k].e = "progress" =>
                   /\ events[k].total = Len(POI_TYPES)
                   /\ events[k].poi_type = POI_TYPES[events[k].current]
        /\ pc = "returned" =>
               /\ Len(finished) = Len(POI_TYPES)
               /\ \A i \in DOMAIN POI_TYPES :
                      /\ Cardinality(EventsAt("progress", i)) = 1
                      /\ finished[i] = "ok" => Cardinality(EventsAt("batch", i)) = 1

\* the call with an empty selection returned POIs after ten categories, two
\* of which failed
C30_Witness ==
    /\ NoCategoryNamed
    /\ selected_poi_types.given
    /\ pc = "returned"
    /\ Len(finished) = 10
    /\ failed = 2
    /\ returned # << >>
====
